---- MODULE Spec2Model ----
(***************************************************************************)
(* Model of the PMG Issue AI pipeline's final stages:                      *)
(*   - the Record Reconciler  (src/post_processing/merge.py)               *)
(*   - the Batch Upsert Writer (src/database_writer/database_writer.py)    *)
(*     with the schema manager (src/database_writer/database_schema.py)    *)
(*                                                                         *)
(* Strings are sequences of one-character strings.  A JSON value is a pair *)
(* <<tag, chars>>: <<"str", s>> for a string, <<"null", <<>>>> for null    *)
(* (Python None), <<"num", digits>> for a number.  A JSON object is a      *)
(* function from field names to JSON values (an absent field is a name     *)
(* outside its DOMAIN); an element of a JSON array is [kind, val] where    *)
(* kind = "dict" for an object and "other" for anything else.              *)
(***************************************************************************)
EXTENDS Integers, Sequences, FiniteSets, TLC

(***************************************************************************)
(* Bounds of the model                                                     *)
(***************************************************************************)
\* longest final-JSON record list over CorePool a writer run is given
MaxRecords == 3
\* longest final-JSON record list over RecordPool a writer run is given
MaxMixed == 1
\* longest final-JSON record list over CollidingPool a writer run is given
MaxColliding == 2
\* longest final-JSON record list two concurrent writer runs are given
MaxConcurrent == 2
\* longest final-JSON record list a run against a drifted table is given
MaxSchemaRecords == 1
\* longest final-JSON record list a writer under construction is given
MaxConfigRecords == 1
\* longest base-issue list the reconciler is given
MaxIssues == 2

(***************************************************************************)
(* Program constants                                                       *)
(***************************************************************************)
\* value[:100] for project_id / issue_id and the similar-issue ids
KeyWidth == 100
\* value[:300] for project_issue_class
ClassWidth == 300
\* value[:50] for the dates, resolution times and predicted timeline
DateWidth == 50

(***************************************************************************)
(* JSON values and Python string helpers                                   *)
(***************************************************************************)
Str(s) == <<"str", s>>
None == <<"null", <<>> >>
Num(d) == <<"num", d>>
EmptyStr == Str(<<>>)

Min(a, b) == IF a <= b THEN a ELSE b

\* n copies of the character c
Rep(c, n) == [i \in 1..n |-> c]

RECURSIVE LStrip(_)
LStrip(s) == IF s = <<>> THEN s
             ELSE IF Head(s) = " " THEN LStrip(Tail(s)) ELSE s

RECURSIVE RStrip(_)
RStrip(s) == IF s = <<>> THEN s
             ELSE IF s[Len(s)] = " " THEN RStrip(SubSeq(s, 1, Len(s) - 1)) ELSE s

\* str.strip()
Strip(s) == RStrip(LStrip(s))

\* a slice that keeps one character more
TruncateOneMore(s, n) == SubSeq(s, 1, Min(n + 1, Len(s)))

\* value[:n]
Truncate(s, n) == SubSeq(s, 1, Min(n, Len(s)))

\* the empty dict {}
EmptyDict == [f \in {} |-> None]

\* dict.get(field, default)
DictGet(d, field, default) == IF field \in DOMAIN d THEN d[field] ELSE default

(***************************************************************************)
(* The canonical record's columns and the table's columns                  *)
(***************************************************************************)
\* field_mapping of _prepare_record_for_db, in its order: <<JSON name, column>>
field_mapping ==
  << <<"Project ID", "project_id">>,
     <<"Issue ID", "issue_id">>,
     <<"Short Description", "short_description">>,
     <<"Long Description", "long_description">>,
     <<"Project Issue class", "project_issue_class">>,
     <<"Similar Issue 1 Project ID", "similar_issue_1_project_id">>,
     <<"Similar Issue 1 Issue ID", "similar_issue_1_issue_id">>,
     <<"Similar Issue 1 Name", "similar_issue_1_name">>,
     <<"Similar Issue 1 Start Date", "similar_issue_1_start_date">>,
     <<"Similar Issue 1 Resolution Time", "similar_issue_1_resolution_time">>,
     <<"Similar Issue 2 Project ID", "similar_issue_2_project_id">>,
     <<"Similar Issue 2 Issue ID", "similar_issue_2_issue_id">>,
     <<"Similar Issue 2 Name", "similar_issue_2_name">>,
     <<"Similar Issue 2 Start Date", "similar_issue_2_start_date">>,
     <<"Similar Issue 2 Resolution Time", "similar_issue_2_resolution_time">>,
     <<"Similar Issue 3 Project ID", "similar_issue_3_project_id">>,
     <<"Similar Issue 3 Issue ID", "similar_issue_3_issue_id">>,
     <<"Similar Issue 3 Name", "similar_issue_3_name">>,
     <<"Similar Issue 3 Start Date", "similar_issue_3_start_date">>,
     <<"Similar Issue 3 Resolution Time", "similar_issue_3_resolution_time">>,
     <<"Time AI Predicted Timeline", "time_ai_predicted_timeline">>,
     <<"Issue Start Date", "issue_start_date">>,
     <<"Predicted End Date", "predicted_end_date">>,
     <<"Timeline Resolution Rationale", "timeline_resolution_rationale">>,
     <<"Immediate next steps", "immediate_next_steps">>,
     <<"Learn from similar Issues", "learn_from_similar_issues">>,
     <<"Strategic Best practice", "strategic_best_practice">> >>

CanonicalFields == { field_mapping[i][1] : i \in DOMAIN field_mapping }
MappedColumns == { field_mapping[i][2] : i \in DOMAIN field_mapping }

\* the JSON field a mapped column is read from
OriginalOf ==
  [c \in MappedColumns |->
     field_mapping[CHOOSE i \in DOMAIN field_mapping : field_mapping[i][2] = c][1]]
OriginalField(db_field) == OriginalOf[db_field]

KeyColumns == {"project_id", "issue_id"}
KeyLikeColumns ==
  {"similar_issue_1_project_id", "similar_issue_2_project_id", "similar_issue_3_project_id",
   "similar_issue_1_issue_id", "similar_issue_2_issue_id", "similar_issue_3_issue_id"}
DateColumns ==
  {"similar_issue_1_start_date", "similar_issue_2_start_date", "similar_issue_3_start_date",
   "similar_issue_1_resolution_time", "similar_issue_2_resolution_time",
   "similar_issue_3_resolution_time",
   "time_ai_predicted_timeline", "issue_start_date", "predicted_end_date"}

\* field order of _get_insert_sql / _insert_batch: the columns a statement writes
InsertColumns == MappedColumns \cup {"ml_pipeline_version", "processing_status"}

(***************************************************************************)
(* DatabaseWriter._prepare_record_for_db                                   *)
(***************************************************************************)
\* lines 354-363: record.get(field, ''), None -> '', str(value), strip()
CleanValue(record, original_field) ==
  LET value == DictGet(record, original_field, EmptyStr)
  IN  IF value = None THEN <<>> ELSE Strip(value[2])

\* a check that looks at project_id alone
RequiredProjectIdEmpty(element) ==
  CleanValue(element.val, OriginalField("project_id")) = <<>>

\* lines 366-369: a key column whose cleaned value is empty raises
RequiredFieldEmpty(element) ==
  \E c \in KeyColumns : CleanValue(element.val, OriginalField(c)) = <<>>

\* the preparation of one element of the record list raises: a required field
\* is empty, or the element is no JSON object (record.get raises)
PrepareRaises(element) ==
  \/ element.kind # "dict"
  \/ RequiredFieldEmpty(element)

\* a preparation that writes the empty string to the TEXT and LONGTEXT columns
PrepareValueKeepEmpty(db_field, value) ==
  IF db_field \in KeyColumns THEN Str(Truncate(value, KeyWidth))
  ELSE IF db_field = "project_issue_class"
       THEN (IF value # <<>> THEN Str(Truncate(value, ClassWidth)) ELSE None)
  ELSE IF db_field \in KeyLikeColumns
       THEN (IF value # <<>> THEN Str(Truncate(value, KeyWidth)) ELSE None)
  ELSE IF db_field \in DateColumns
       THEN (IF value # <<>> THEN Str(Truncate(value, DateWidth)) ELSE None)
  ELSE Str(value)

\* lines 366-384: the value written for one mapped column
PrepareValue(db_field, value) ==
  IF db_field \in KeyColumns THEN Str(Truncate(value, KeyWidth))
  ELSE IF db_field = "project_issue_class"
       THEN (IF value # <<>> THEN Str(Truncate(value, ClassWidth)) ELSE None)
  ELSE IF db_field \in KeyLikeColumns
       THEN (IF value # <<>> THEN Str(Truncate(value, KeyWidth)) ELSE None)
  ELSE IF db_field \in DateColumns
       THEN (IF value # <<>> THEN Str(Truncate(value, DateWidth)) ELSE None)
  ELSE IF value = <<>> THEN None
  ELSE Str(value)

\* the db_record returned for an element whose preparation does not raise
PrepareRecordForDb(element) ==
  [c \in InsertColumns |->
     IF c = "ml_pipeline_version" THEN Str(<<"1", ".", "0", ".", "0">>)
     ELSE IF c = "processing_status" THEN Str(<<"c", "o", "m", "p", "l", "e", "t", "e", "d">>)
     ELSE PrepareValue(c, CleanValue(element.val, OriginalField(c)))]

\* lines 520-527 of _write_data_to_db: the db_batch built from one chunk, the
\* records whose preparation raises left out, the others in input order
\* a preparation loop that gives the chunk up at its first failing record
RECURSIVE PrepareBatchUntilFailure(_)
PrepareBatchUntilFailure(batch) ==
  IF batch = <<>> THEN <<>>
  ELSE IF PrepareRaises(Head(batch)) THEN <<>>
  ELSE <<PrepareRecordForDb(Head(batch))>> \o PrepareBatchUntilFailure(Tail(batch))

RECURSIVE PrepareBatch(_)
PrepareBatch(batch) ==
  IF batch = <<>> THEN <<>>
  ELSE IF PrepareRaises(Head(batch)) THEN PrepareBatch(Tail(batch))
  ELSE <<PrepareRecordForDb(Head(batch))>> \o PrepareBatch(Tail(batch))

\* lines 525-527: total_errors += 1 for each record of the chunk that raises
RECURSIVE PrepareErrors(_)
PrepareErrors(batch) ==
  IF batch = <<>> THEN 0
  ELSE (IF PrepareRaises(Head(batch)) THEN 1 ELSE 0) + PrepareErrors(Tail(batch))

(***************************************************************************)
(* MySQLSchemaManager: the declared columns and the schema validation      *)
(***************************************************************************)
\* a column type: 'VARCHAR(100)' is Type("VARCHAR", 100); a type written
\* without a length has width 0
Type(base, width) == [base |-> base, width |-> width]

TextColumns ==
  {"short_description", "similar_issue_1_name", "similar_issue_2_name", "similar_issue_3_name"}
LongTextColumns ==
  {"long_description", "timeline_resolution_rationale", "immediate_next_steps",
   "learn_from_similar_issues", "strategic_best_practice"}
Varchar100Columns ==
  {"project_id", "issue_id",
   "similar_issue_1_project_id", "similar_issue_1_issue_id",
   "similar_issue_2_project_id", "similar_issue_2_issue_id",
   "similar_issue_3_project_id", "similar_issue_3_issue_id"}
Varchar50Columns ==
  {"similar_issue_1_start_date", "similar_issue_1_resolution_time",
   "similar_issue_2_start_date", "similar_issue_2_resolution_time",
   "similar_issue_3_start_date", "similar_issue_3_resolution_time",
   "time_ai_predicted_timeline", "issue_start_date", "predicted_end_date",
   "ml_pipeline_version"}

\* self.table_columns: the 'type' of each declared column
table_columns ==
  [c \in {"id", "project_issue_class", "created_at", "updated_at", "processing_status"}
         \cup TextColumns \cup LongTextColumns \cup Varchar100Columns \cup Varchar50Columns |->
     CASE c = "id" -> Type("BIGINT", 0)
       [] c \in Varchar100Columns -> Type("VARCHAR", 100)
       [] c = "project_issue_class" -> Type("VARCHAR", 300)
       [] c \in Varchar50Columns -> Type("VARCHAR", 50)
       [] c \in TextColumns -> Type("TEXT", 0)
       [] c \in LongTextColumns -> Type("LONGTEXT", 0)
       [] c \in {"created_at", "updated_at"} -> Type("TIMESTAMP", 0)
       [] c = "processing_status" -> Type("ENUM", 0)]

\* str.upper() on the type names the engine reports
UpperOf ==
  [n \in {"bigint", "int", "smallint", "varchar", "char", "text", "tinytext", "mediumtext",
          "longtext", "timestamp", "datetime", "enum", "date"} |->
     CASE n = "bigint" -> "BIGINT" [] n = "int" -> "INT" [] n = "varchar" -> "VARCHAR"
       [] n = "smallint" -> "SMALLINT" [] n = "tinytext" -> "TINYTEXT"
       [] n = "char" -> "CHAR" [] n = "text" -> "TEXT" [] n = "mediumtext" -> "MEDIUMTEXT"
       [] n = "longtext" -> "LONGTEXT" [] n = "timestamp" -> "TIMESTAMP"
       [] n = "datetime" -> "DATETIME" [] n = "enum" -> "ENUM" [] n = "date" -> "DATE"]
Upper(n) == IF n \in DOMAIN UpperOf THEN UpperOf[n] ELSE n

\* type.upper().split('(')[0]
NormalizedType(t) == Upper(t.base)

\* type_mappings of _column_types_compatible
type_mappings ==
  [e \in {"BIGINT", "INT", "VARCHAR", "TEXT", "LONGTEXT", "TIMESTAMP", "ENUM"} |->
     CASE e = "BIGINT" -> {"BIGINT", "INT"}
       [] e = "INT" -> {"INT", "BIGINT"}
       [] e = "VARCHAR" -> {"VARCHAR", "CHAR"}
       [] e = "TEXT" -> {"TEXT", "MEDIUMTEXT", "LONGTEXT"}
       [] e = "LONGTEXT" -> {"LONGTEXT", "TEXT", "MEDIUMTEXT"}
       [] e = "TIMESTAMP" -> {"TIMESTAMP", "DATETIME"}
       [] e = "ENUM" -> {"ENUM"}]

\* a comparison of the normalized names without the compatibility table
ColumnTypesIdentical(expected_type, actual_type) ==
  NormalizedType(expected_type) = NormalizedType(actual_type)

\* _column_types_compatible
ColumnTypesCompatible(expected_type, actual_type) ==
  LET expected_normalized == NormalizedType(expected_type)
      actual_normalized == NormalizedType(actual_type)
      expected_compatible ==
        IF expected_normalized \in DOMAIN type_mappings
        THEN type_mappings[expected_normalized] ELSE {expected_normalized}
  IN  actual_normalized \in expected_compatible

\* a validation whose verdict passes over the undeclared columns
ValidateTableSchemaTolerant(described) ==
  LET current_columns == described.columns
      missing_columns == {c \in DOMAIN table_columns : c \notin DOMAIN current_columns}
      extra_columns == {c \in DOMAIN current_columns : c \notin DOMAIN table_columns}
      schema_differences ==
        {c \in DOMAIN table_columns \cap DOMAIN current_columns :
           ~ColumnTypesCompatible(table_columns[c], current_columns[c])}
  IN  [valid |-> described.state = "ok" /\ missing_columns = {} /\ schema_differences = {},
       error |-> described.state # "ok",
       missing_columns |->
         IF described.state = "gone" THEN DOMAIN table_columns
         ELSE IF described.state = "error" THEN {} ELSE missing_columns,
       extra_columns |-> IF described.state = "ok" THEN extra_columns ELSE {},
       schema_differences |-> IF described.state = "ok" THEN schema_differences ELSE {}]

\* validate_table_schema on what the server answers.  described.state is
\* "ok" (DESCRIBE lists described.columns), "gone" (the table_exists() call
\* inside the validation answers False) or "error" (the query raises)
ValidateTableSchema(described) ==
  IF described.state = "gone"
  THEN [valid |-> FALSE, error |-> TRUE, missing_columns |-> DOMAIN table_columns,
        extra_columns |-> {}, schema_differences |-> {}]
  ELSE IF described.state = "error"
  THEN [valid |-> FALSE, error |-> TRUE, missing_columns |-> {},
        extra_columns |-> {}, schema_differences |-> {}]
  ELSE LET current_columns == described.columns
           missing_columns == {c \in DOMAIN table_columns : c \notin DOMAIN current_columns}
           extra_columns == {c \in DOMAIN current_columns : c \notin DOMAIN table_columns}
           schema_differences ==
             {c \in DOMAIN table_columns \cap DOMAIN current_columns :
                ~ColumnTypesCompatible(table_columns[c], current_columns[c])}
       IN  [valid |-> missing_columns = {} /\ extra_columns = {} /\ schema_differences = {},
            error |-> FALSE,
            missing_columns |-> missing_columns,
            extra_columns |-> extra_columns,
            schema_differences |-> schema_differences]

\* the type names as DESCRIBE reports them
DescribeOf ==
  [n \in {"BIGINT", "VARCHAR", "TEXT", "LONGTEXT", "TIMESTAMP", "ENUM"} |->
     CASE n = "BIGINT" -> "bigint" [] n = "VARCHAR" -> "varchar" [] n = "TEXT" -> "text"
       [] n = "LONGTEXT" -> "longtext" [] n = "TIMESTAMP" -> "timestamp" [] n = "ENUM" -> "enum"]

\* the columns of a table made by get_create_table_sql, as DESCRIBE lists them
CreatedColumns ==
  [state |-> "ok",
   columns |-> [c \in DOMAIN table_columns |->
                  Type(DescribeOf[table_columns[c].base], table_columns[c].width)]]

\* no table: nothing to describe
NoTable == [state |-> "gone", columns |-> [c \in {} |-> Type("", 0)]]

(***************************************************************************)
(* The table: a sequence of rows in insertion order (the position stands   *)
(* for the AUTO_INCREMENT id); a row gives a value to every written column *)
(***************************************************************************)
\* utf8mb4_unicode_ci compares without case and ignores trailing spaces
Lower(c) == IF c = "A" THEN "a" ELSE IF c = "B" THEN "b" ELSE c
CollationKey(v) == RStrip([i \in DOMAIN v[2] |-> Lower(v[2][i])])

\* two rows conflict on UNIQUE KEY idx_project_issue (project_id, issue_id)
SameBusinessKey(r1, r2) ==
  \A c \in KeyColumns : CollationKey(r1[c]) = CollationKey(r2[c])

\* a table created without the unique index
UniqueKeyMissing == FALSE

\* table_columns / indexes: idx_project_issue is declared unique and is part
\* of the CREATE TABLE statement
UniqueKeyDeclared == TRUE

\* an update clause that assigns nothing
UpdateClauseKeepsOld(old, new) == old

\* the row left by ON DUPLICATE KEY UPDATE: every non-key column of the
\* statement's field list takes VALUES(col), the key columns are kept
UpdateClause(old, new) ==
  [c \in InsertColumns |-> IF c \in KeyColumns THEN old[c] ELSE new[c]]

\* a statement that skips a conflicting row without an error (INSERT IGNORE)
InsertRowIgnoring(tbl, row, update_existing) ==
  IF \E i \in DOMAIN tbl : SameBusinessKey(tbl[i], row)
  THEN [err |-> FALSE, table |-> tbl, affected |-> 0, same |-> 0]
  ELSE [err |-> FALSE, table |-> Append(tbl, row), affected |-> 1, same |-> 0]

\* one row of the multi-row statement against the table so far.
\*   err: the row raised a duplicate-key error (plain INSERT)
\*   affected: rows the engine counts for it (1 inserted, 2 updated)
\*   same: 1 when the update set the row to the values it already had (the
\*         engine then counts 0, or 2 when updated_at moved)
InsertRow(tbl, row, update_existing) ==
  LET hits == {i \in DOMAIN tbl : UniqueKeyDeclared /\ SameBusinessKey(tbl[i], row)}
  IN  IF hits = {}
      THEN [err |-> FALSE, table |-> Append(tbl, row), affected |-> 1, same |-> 0]
      ELSE IF update_existing
      THEN LET i == CHOOSE j \in hits : \A k \in hits : j <= k
               upd == UpdateClause(tbl[i], row)
           IN  [err |-> FALSE,
                table |-> [tbl EXCEPT ![i] = upd],
                affected |-> IF upd = tbl[i] THEN 0 ELSE 2,
                same |-> IF upd = tbl[i] THEN 1 ELSE 0]
      ELSE [err |-> TRUE, table |-> tbl, affected |-> 0, same |-> 0]

\* cursor.executemany(sql, data_tuples): the rows in order, as one statement;
\* a duplicate-key error undoes the whole statement
RECURSIVE ExecuteMany(_, _, _)
ExecuteMany(tbl, rows, update_existing) ==
  IF rows = <<>> THEN [err |-> FALSE, table |-> tbl, affected |-> 0, same |-> 0]
  ELSE LET one == InsertRow(tbl, Head(rows), update_existing)
       IN  IF one.err THEN one
           ELSE LET rest == ExecuteMany(one.table, Tail(rows), update_existing)
                IN  [err |-> rest.err,
                     table |-> rest.table,
                     affected |-> one.affected + rest.affected,
                     same |-> one.same + rest.same]

(***************************************************************************)
(* PostProcessingPipeline: the reconciler                                  *)
(***************************************************************************)
DatasetNames ==
  {"descriptions", "classifications", "similar_issues",
   "timeline_predictions", "action_recommendations"}

\* _combine_single_issue, lines 285-326: for each output field other than the
\* key, the lookup it is read from and the annotation field read
SourceOf ==
  [f \in CanonicalFields \ {"Project ID", "Issue ID"} |->
     CASE f = "Short Description" -> <<"descriptions", "shortDescription">>
       [] f = "Long Description" -> <<"descriptions", "longDescription">>
       [] f = "Project Issue class" -> <<"classifications", "classification">>
       [] f = "Similar Issue 1 Project ID" -> <<"similar_issues", "similarIssue1ProjectId">>
       [] f = "Similar Issue 1 Issue ID" -> <<"similar_issues", "similarIssue1IssueId">>
       [] f = "Similar Issue 1 Name" -> <<"similar_issues", "similarIssue1Name">>
       [] f = "Similar Issue 1 Start Date" -> <<"similar_issues", "similarIssue1StartDate">>
       [] f = "Similar Issue 1 Resolution Time" ->
            <<"similar_issues", "similarIssue1ResolutionTime">>
       [] f = "Similar Issue 2 Project ID" -> <<"similar_issues", "similarIssue2ProjectId">>
       [] f = "Similar Issue 2 Issue ID" -> <<"similar_issues", "similarIssue2IssueId">>
       [] f = "Similar Issue 2 Name" -> <<"similar_issues", "similarIssue2Name">>
       [] f = "Similar Issue 2 Start Date" -> <<"similar_issues", "similarIssue2StartDate">>
       [] f = "Similar Issue 2 Resolution Time" ->
            <<"similar_issues", "similarIssue2ResolutionTime">>
       [] f = "Similar Issue 3 Project ID" -> <<"similar_issues", "similarIssue3ProjectId">>
       [] f = "Similar Issue 3 Issue ID" -> <<"similar_issues", "similarIssue3IssueId">>
       [] f = "Similar Issue 3 Name" -> <<"similar_issues", "similarIssue3Name">>
       [] f = "Similar Issue 3 Start Date" -> <<"similar_issues", "similarIssue3StartDate">>
       [] f = "Similar Issue 3 Resolution Time" ->
            <<"similar_issues", "similarIssue3ResolutionTime">>
       [] f = "Time AI Predicted Timeline" ->
            <<"timeline_predictions", "timeAiPredictedTimeline">>
       [] f = "Issue Start Date" -> <<"timeline_predictions", "issueStartDate">>
       [] f = "Predicted End Date" -> <<"timeline_predictions", "predictedEndDate">>
       [] f = "Timeline Resolution Rationale" ->
            <<"timeline_predictions", "timelineReasoning">>
       [] f = "Immediate next steps" -> <<"action_recommendations", "immediateNextSteps">>
       [] f = "Learn from similar Issues" ->
            <<"action_recommendations", "learnFromSimilarIssues">>
       [] f = "Strategic Best practice" ->
            <<"action_recommendations", "strategicBestPractice">>]

\* how an f-string renders a JSON value
Format(v) == IF v = None THEN <<"N", "o", "n", "e">> ELSE v[2]

\* f"{project_id}_{issue_id}"
IssueKey(project_id, issue_id) == Format(project_id) \o <<"_">> \o Format(issue_id)

\* `if project_id and issue_id`: neither is '' nor None
Truthy(v) == v # None /\ v[2] # << >>

\* one lookup of _create_lookups: the entries in order, each entry with both
\* ids overwriting what the key had
\* a lookup that keeps the first entry of a key
RECURSIVE CreateLookupKeepFirst(_)
CreateLookupKeepFirst(entries) ==
  IF entries = << >> THEN EmptyDict
  ELSE LET n == Len(entries)
           rest == CreateLookupKeepFirst(SubSeq(entries, 1, n - 1))
           entry == entries[n].val
           project_id == DictGet(entry, "projectId", EmptyStr)
           issue_id == DictGet(entry, "issueId", EmptyStr)
           key == IssueKey(project_id, issue_id)
       IN  IF Truthy(project_id) /\ Truthy(issue_id) /\ key \notin DOMAIN rest
           THEN [k \in DOMAIN rest \cup {key} |-> IF k = key THEN entry ELSE rest[k]]
           ELSE rest

RECURSIVE CreateLookup(_)
CreateLookup(entries) ==
  IF entries = << >> THEN EmptyDict
  ELSE LET n == Len(entries)
           rest == CreateLookup(SubSeq(entries, 1, n - 1))
           entry == entries[n].val
           project_id == DictGet(entry, "projectId", EmptyStr)
           issue_id == DictGet(entry, "issueId", EmptyStr)
           key == IssueKey(project_id, issue_id)
       IN  IF Truthy(project_id) /\ Truthy(issue_id)
           THEN [k \in DOMAIN rest \cup {key} |-> IF k = key THEN entry ELSE rest[k]]
           ELSE rest

\* _create_lookups
CreateLookups(d) == [name \in DatasetNames |-> CreateLookup(d[name])]

\* a get that finds no entry
LookupMiss(lookup, issue_key) == EmptyDict

\* lookups[name].get(issue_key, {})
LookupGet(lookup, issue_key) == DictGet(lookup, issue_key, EmptyDict)

\* a fallback that forgets the issue's creation date
StartDateDefaultEmpty(issue) == EmptyStr

\* the value 'Issue Start Date' falls back to when the timeline entry has none
StartDateDefault(issue) == DictGet(issue, "issueCreationDate", EmptyStr)

\* _combine_single_issue for a base issue that is a JSON object
CombineSingleIssue(issue, lks) ==
  LET project_id == DictGet(issue, "projectId", EmptyStr)
      issue_id == DictGet(issue, "issueId", EmptyStr)
      issue_key == IssueKey(project_id, issue_id)
      found == [name \in DatasetNames |-> LookupGet(lks[name], issue_key)]
  IN  [f \in CanonicalFields |->
         IF f = "Project ID" THEN project_id
         ELSE IF f = "Issue ID" THEN issue_id
         ELSE IF f = "Issue Start Date"
              THEN DictGet(found[SourceOf[f][1]], SourceOf[f][2], StartDateDefault(issue))
         ELSE DictGet(found[SourceOf[f][1]], SourceOf[f][2], EmptyStr)]

\* issue.get raises AttributeError when the base issue is no JSON object
CombineRaises(element) == element.kind # "dict"

\* the except clause of _process_all_issues builds its record with issue.get
\* too: it raises on the same issues, and nothing catches that
HandlerRaises(element) == element.kind # "dict"

\* lines 365-393: the record appended when combining raised (i: the digits of
\* the issue's position)
SentinelRecord(issue, i) ==
  [f \in CanonicalFields |->
     CASE f = "Project ID" -> DictGet(issue, "projectId", Str(<<"U", "n", "k", "n", "o", "w", "n">>))
       [] f = "Issue ID" -> DictGet(issue, "issueId", Str(<<"I", "s", "s", "u", "e", "_">> \o i))
       [] f = "Short Description" -> Str(<<"Processing error: ">>)
       [] f = "Long Description" -> Str(<<"Please contact support for assistance">>)
       [] f = "Project Issue class" -> Str(<<"Error">>)
       [] f = "Issue Start Date" -> DictGet(issue, "issueCreationDate", EmptyStr)
       [] f = "Timeline Resolution Rationale" -> Str(<<"Processing error occurred">>)
       [] f = "Immediate next steps" -> Str(<<"Contact support for assistance">>)
       [] f = "Learn from similar Issues" -> Str(<<"Review issue data and retry">>)
       [] f = "Strategic Best practice" -> Str(<<"Check system logs and retry processing">>)
       [] OTHER -> EmptyStr]

(***************************************************************************)
(* State                                                                   *)
(***************************************************************************)
\* writer runs that may be in progress against the one table
Runs == {"r1", "r2"}

VARIABLES
  \* --- the environment of the writer ---
  final_json,       \* the final JSON file: [state, records]
  batch_size,       \* db_config batch_size
  update_existing,  \* db_config update_existing
  db_exists,        \* the database of db_config exists on the server
  table_exists,     \* the ml_results table exists in it
  table,            \* the rows of the table
  described,        \* the table's columns and how the server answers about them
  active,           \* the runs that are started
  settings,         \* the 'database' section of the configuration file
  discovered,       \* what discover_aws_mysql_database() returns when called
  db_config,        \* self.db_config of each writer
  connection_params, \* self.connection_params of each writer's Connection Manager
  \* --- DatabaseWriter.run, one per run ---
  pc,               \* position of run()
  records,          \* the list _load_data returned
  offset,           \* loop variable i of _write_data_to_db
  stats,            \* total_processed, total_errors, batch_count
  calls,            \* the _insert_batch calls made so far
  executed,         \* the steps of run() executed so far, in order
  outcome,          \* status of the run and the step that failed it
  validation,       \* the validate_table_schema results the run obtained
  connections,      \* the Connection Manager connections the run has open
  \* --- PostProcessingPipeline (reconciler) ---
  m_pc,             \* position of the reconciler
  all_issues,       \* data['all_issues']
  data,             \* the five annotation datasets
  lookups,          \* the five lookups of _create_lookups
  final_results,    \* final_results of _process_all_issues
  files,            \* the six input files: "ok", "missing" or "invalid" (no JSON)
  m_error,          \* the PostProcessingError the run raised
  sinks             \* the export files the run has written

writer_env ==
  <<final_json, batch_size, update_existing, db_exists, table_exists, table, described, active,
    settings, discovered, db_config, connection_params>>
writer_run == <<pc, records, offset, stats, calls, executed, outcome, validation, connections>>
merge_vars == <<m_pc, all_issues, data, lookups, final_results, files, m_error, sinks>>
vars == <<writer_env, writer_run, merge_vars>>

(***************************************************************************)
(* Inputs of the writer                                                    *)
(***************************************************************************)
Text1 == <<"x">>
Text2 == <<"y", "y">>

\* the fields the sample records carry; record.get(field, '') reads every
\* other field as ''
SampleFields ==
  {"Project ID", "Issue ID", "Short Description", "Project Issue class", "Issue Start Date"}

\* a record of the final JSON file
MkRecord(pid, iid, text) ==
  [kind |-> "dict",
   val |-> [f \in SampleFields |->
              IF f = "Project ID" THEN pid
              ELSE IF f = "Issue ID" THEN iid
              ELSE Str(text)]]

\* a record without its 'Issue ID' field
NoIssueId(rec) ==
  [kind |-> "dict",
   val |-> [f \in SampleFields \ {"Issue ID"} |-> rec.val[f]]]

LongKey(last) == Rep("k", KeyWidth) \o <<last>>

RecA1 == MkRecord(Str(<<"a">>), Str(<<"1">>), Text1)
RecA2 == MkRecord(Str(<<"a">>), Str(<<"1">>), Text2)
RecB == MkRecord(Str(<<"b">>), Str(<<"1">>), Text1)
RecPadded == MkRecord(Str(<<" ", "a", " ">>), Num(<<"1">>), <<>>)
RecUpper == MkRecord(Str(<<"A">>), Str(<<"1">>), Text2)
RecLong1 == MkRecord(Str(LongKey("p")), Str(<<"1">>), Text1)
RecLong2 == MkRecord(Str(LongKey("q")), Str(<<"1">>), Text2)
RecEmptyKey == MkRecord(Str(<<>>), Str(<<"1">>), Text1)
RecBlankKey == MkRecord(Str(<<"b">>), Str(<<" ", " ">>), Text1)
RecNullKey == MkRecord(None, Str(<<"1">>), Text1)
RecMissingKey == NoIssueId(RecB)
RecNotDict == [kind |-> "other", val |-> EmptyDict]

\* records whose 'Short Description' is null, blank, or a text between blanks
WithField(rec, f, v) == [kind |-> "dict", val |-> [rec.val EXCEPT ![f] = v]]
RecNullText == WithField(RecB, "Short Description", None)
RecBlankText == WithField(RecB, "Short Description", Str(<<" ", " ">>))
RecPaddedText == WithField(RecB, "Short Description", Str(<<" ", "x", " ">>))

\* the declared width of the column a JSON field is written to (0: no width)
WidthOf(f) ==
  table_columns[field_mapping[CHOOSE i \in DOMAIN field_mapping : field_mapping[i][1] = f][2]].width

\* a record carrying every field; each field of a VARCHAR(n) column holds
\* blanks around a text of `over` characters more than n
MkWideRecord(c, over) ==
  [kind |-> "dict",
   val |-> [f \in CanonicalFields |->
              IF WidthOf(f) = 0 THEN Str(Text2)
              ELSE Str(<<" ">> \o Rep(c, WidthOf(f)) \o Rep("z", over) \o <<" ", " ">>)]]

\* every VARCHAR field two characters over its width / exactly at its width
RecWide == MkWideRecord("w", 2)
RecFit == MkWideRecord("f", 0)

\* the records of the longer lists: one key with two contents, another key,
\* a record with a blank required field
CorePool == {RecA1, RecA2, RecB, RecBlankKey}

\* the records of the shorter lists
RecordPool ==
  CorePool \cup {RecPadded, RecUpper, RecLong1, RecLong2, RecNullKey, RecMissingKey, RecNotDict,
                 RecWide, RecFit}

\* sequences over S of length 0..n
SeqsUpTo(S, n) == UNION { [1..k -> S] : k \in 0..n }

\* records whose keys meet in the table: by trimming, by the collation, by
\* truncation
CollidingPool == {RecA1, RecPadded, RecUpper, RecLong1, RecLong2}

\* the record lists one run is given
RecordLists ==
  SeqsUpTo(CorePool, MaxRecords) \cup SeqsUpTo(RecordPool, MaxMixed)
    \cup SeqsUpTo(CollidingPool, MaxColliding)
    \cup {<<RecNullText>>, <<RecBlankText>>, <<RecPaddedText>>}

\* the records two concurrent runs are given: one key with two contents
ConcurrentPool == {RecA1, RecA2}

\* the record lists two concurrent runs are given. RecA1 and RecA2 differ in
\* their text only, so a list that starts with RecA2 is the mirror image of
\* one that starts with RecA1 and is left out
ConcurrentLists ==
  {l \in SeqsUpTo(ConcurrentPool, MaxConcurrent) : l = << >> \/ l[1] = RecA1}
    \cup {<<RecEmptyKey>>}

BatchSizes == {1, 2}

\* the states of the final JSON file
JsonFiles(lists) ==
  { [state |-> "missing", records |-> << >>],
    [state |-> "invalid_json", records |-> << >>],
    [state |-> "bad_shape", records |-> << >>] }
  \cup { [state |-> "ok", records |-> rs] : rs \in lists }

NoStats == [total_processed |-> 0, total_errors |-> 0, batch_count |-> 0]
NoOutcome == [status |-> "none", fail_step |-> "none"]

\* a 'connection_params' mapping: the keys it has, each with its value
NoParams == [k \in {} |-> "none"]

\* default_params of MySQLConnectionManager.__init__
default_params ==
  [k \in {"charset", "connect_timeout", "autocommit", "use_unicode", "sql_mode"} |->
     CASE k = "charset" -> "utf8mb4"
       [] k = "connect_timeout" -> "30"
       [] k = "autocommit" -> "True"
       [] k = "use_unicode" -> "True"
       [] k = "sql_mode" ->
            "STRICT_TRANS_TABLES,NO_ZERO_DATE,NO_ZERO_IN_DATE,ERROR_FOR_DIVISION_BY_ZERO"]

\* {**a, **b}
Merged(a, b) == [k \in DOMAIN a \cup DOMAIN b |-> IF k \in DOMAIN b THEN b[k] ELSE a[k]]

\* the merge MySQLConnectionManager.__init__ left commented out (line 62)
ConnectionParamsUnfiltered(caller_params) == Merged(default_params, caller_params)

\* MySQLConnectionManager.__init__, lines 63-64: the caller's parameters
\* without 'sslmode', over the defaults
ConnectionParams(caller_params) ==
  LET filtered_params ==
        [k \in {k \in DOMAIN caller_params : k # "sslmode"} |-> caller_params[k]]
  IN  Merged(default_params, filtered_params)

\* the 'database' section: 'enabled' is "True", "False" or "absent"; 'host'
\* and 'database' are strings, None when the key is absent or null; 'port'
\* is "3306" or "absent"; 'connection_params' is a mapping, empty when the
\* key is absent
DatabaseSection(enabled, host, database) ==
  [enabled |-> enabled, host |-> host, database |-> database,
   port |-> "3306", connection_params |-> NoParams]

\* the section of create_sample_config: charset, connect_timeout, autocommit
SampleParams ==
  [k \in {"charset", "connect_timeout", "autocommit"} |->
     CASE k = "charset" -> "utf8mb4" [] k = "connect_timeout" -> "30"
       [] k = "autocommit" -> "True"]

\* caller parameters: any of a charset, a timeout and an sslmode, or the
\* parameters of the sample configuration
ParamChoices ==
  { [k \in ks |-> CASE k = "charset" -> "latin1" [] k = "connect_timeout" -> "5"
                     [] k = "sslmode" -> "require"] :
      ks \in SUBSET {"charset", "connect_timeout", "sslmode"} }
  \cup {SampleParams}

\* a complete, enabled section
ExplicitSettings == DatabaseSection("True", Str(<<"h">>), Str(<<"d">>))

\* discover_aws_mysql_database(): {} (no instance found, or the discovery
\* raised), or the connection config of the recommended instance
NoCandidate == [host |-> None]
Candidate == [host |-> Str(<<"r", "d", "s">>)]

\* no db_config yet
Unresolved == DatabaseSection("absent", None, None)

\* a writer constructed from a complete configuration
Constructed ==
  /\ settings = ExplicitSettings
  /\ discovered = NoCandidate
  /\ db_config = [r \in Runs |-> ExplicitSettings]
  /\ connection_params = [r \in Runs |-> ConnectionParams(ExplicitSettings.connection_params)]

RunIdle ==
  /\ records = [r \in Runs |-> << >>]
  /\ offset = [r \in Runs |-> 0]
  /\ stats = [r \in Runs |-> NoStats]
  /\ calls = [r \in Runs |-> << >>]
  /\ executed = [r \in Runs |-> << >>]
  /\ outcome = [r \in Runs |-> NoOutcome]
  /\ validation = [r \in Runs |-> << >>]
  /\ connections = [r \in Runs |-> 0]

WriterIdle ==
  /\ Constructed
  /\ pc = [r \in Runs |-> "init"]
  /\ records = [r \in Runs |-> << >>]
  /\ offset = [r \in Runs |-> 0]
  /\ stats = [r \in Runs |-> NoStats]
  /\ calls = [r \in Runs |-> << >>]
  /\ executed = [r \in Runs |-> << >>]
  /\ outcome = [r \in Runs |-> NoOutcome]
  /\ validation = [r \in Runs |-> << >>]
  /\ connections = [r \in Runs |-> 0]

\* required_files of _validate_inputs, in its order: <<name, file>>
required_files ==
  << <<"All Issues Features", "all_issues">>,
     <<"Description Output", "descriptions">>,
     <<"Classification Output", "classifications">>,
     <<"Similar Issues Output", "similar_issues">>,
     <<"Timeline Predictions Output", "timeline_predictions">>,
     <<"Action Recommendations Output", "action_recommendations">> >>

FileKeys == { required_files[i][2] : i \in DOMAIN required_files }

NoError == [kind |-> "none", names |-> << >>]
NoSinks == [excel |-> FALSE, json |-> FALSE]

MergeIdle ==
  /\ m_pc = "idle"
  /\ all_issues = << >>
  /\ data = << >>
  /\ lookups = << >>
  /\ final_results = << >>
  /\ files = [k \in FileKeys |-> "ok"]
  /\ m_error = NoError
  /\ sinks = NoSinks

\* the writer's environment: the table starts empty; a table that exists was
\* created by create_table of an earlier run
WriterEnvWith(lists, sizes, schemas, runs) ==
  /\ final_json \in JsonFiles(lists)
  /\ batch_size \in sizes
  /\ update_existing \in BOOLEAN
  /\ db_exists \in BOOLEAN
  /\ table_exists \in BOOLEAN
  /\ table_exists => db_exists
  /\ table = << >>
  /\ described \in (IF table_exists THEN schemas ELSE {NoTable})
  /\ active = runs

WriterEnv(lists, schemas, runs) == WriterEnvWith(lists, BatchSizes, schemas, runs)

\* record lists that make one chunk of MaxRecords records
WholeChunkLists == [1..MaxRecords -> CorePool]

\* one writer run
Init ==
  /\ \/ WriterEnv(RecordLists, {CreatedColumns}, {"r1"})
     \/ WriterEnvWith(WholeChunkLists, {MaxRecords}, {CreatedColumns}, {"r1"})
  /\ WriterIdle
  /\ MergeIdle

\* column sets of a table that exists before the run: with and without drift
WithColumn(cols, c, t) == [d \in DOMAIN cols \cup {c} |-> IF d = c THEN t ELSE cols[d]]
WithoutColumn(cols, c) == [d \in DOMAIN cols \ {c} |-> cols[d]]
Described(cols) == [state |-> "ok", columns |-> cols]

\* one column of each declared type, under each type a live table may give it
RetypedColumns ==
  {"id", "project_id", "short_description", "long_description", "created_at",
   "processing_status"}
LiveTypes ==
  { Type("bigint", 20), Type("int", 11), Type("smallint", 6),
    Type("varchar", 255), Type("char", 100),
    Type("text", 0), Type("tinytext", 0), Type("mediumtext", 0), Type("longtext", 0),
    Type("timestamp", 0), Type("datetime", 0), Type("enum", 0), Type("date", 0) }

SchemaVariants ==
  { CreatedColumns,
    \* a column of the statement is missing, a column nothing writes is missing
    Described(WithoutColumn(CreatedColumns.columns, "strategic_best_practice")),
    Described(WithoutColumn(CreatedColumns.columns, "created_at")),
    \* a column the code does not declare
    Described(WithColumn(CreatedColumns.columns, "legacy_note", Type("text", 0))),
    Described(WithColumn(WithColumn(CreatedColumns.columns, "legacy_note", Type("text", 0)),
                         "legacy_flag", Type("int", 11))),
    \* a type outside the declared type's family, and types inside it
    Described(WithColumn(CreatedColumns.columns, "issue_start_date", Type("date", 0))),
    Described(WithColumn(WithColumn(CreatedColumns.columns, "short_description",
                                    Type("mediumtext", 0)),
                         "created_at", Type("datetime", 0))),
    \* the validation's queries fail
    [state |-> "error", columns |-> CreatedColumns.columns],
    [state |-> "gone", columns |-> CreatedColumns.columns] }
  \cup { Described(WithColumn(CreatedColumns.columns, c, t)) :
           c \in RetypedColumns, t \in LiveTypes }

\* one writer run against a table that may have drifted
InitSchema ==
  /\ WriterEnv(SeqsUpTo({RecA1, RecBlankKey}, MaxSchemaRecords), SchemaVariants, {"r1"})
  /\ WriterIdle
  /\ MergeIdle

\* two writer runs against the same table
InitConcurrent ==
  /\ WriterEnv(ConcurrentLists, {CreatedColumns}, Runs)
  /\ db_exists
  /\ WriterIdle
  /\ MergeIdle

\* the configurations a writer is constructed from
SettingsChoices ==
  { DatabaseSection(e, h, d) :
      e \in {"absent", "False", "True"},
      h \in {None, EmptyStr, Str(<<"h">>)},
      d \in {None, EmptyStr, Str(<<"d">>)} }
  \cup { [ExplicitSettings EXCEPT !.connection_params = p, !.port = n] :
           p \in ParamChoices, n \in {"3306", "absent"} }

\* one writer, from its construction on
InitConfig ==
  /\ WriterEnv(SeqsUpTo({RecA1, RecBlankKey}, MaxConfigRecords), {CreatedColumns}, {"r1"})
  /\ settings \in SettingsChoices
  /\ discovered \in {NoCandidate, Candidate}
  /\ db_config = [r \in Runs |-> Unresolved]
  /\ connection_params = [r \in Runs |-> NoParams]
  /\ pc = [r \in Runs |-> "constructing"]
  /\ RunIdle
  /\ MergeIdle

(***************************************************************************)
(* DatabaseWriter.run, step by step                                        *)
(***************************************************************************)
\* the numbered steps of run(): "test_connection" (Step 1), "ensure_database"
\* (Step 2), "setup_schema" (Step 3), "validate_inputs" (Step 4), "load_data"
\* (Step 5), "write_data" (Step 6), "table_info" (the final summary)
Step(r, names) == executed' = [executed EXCEPT ![r] = @ \o names]

\* an except clause that records the error and lets the run go on
FailStays(r, step) ==
  /\ pc' = pc
  /\ outcome' = [outcome EXCEPT ![r] = [status |-> "error", fail_step |-> step]]

\* the except clause of run(): the error is logged and raised to the caller
\* as DatabaseWriterError
Fail(r, step) ==
  /\ pc' = [pc EXCEPT ![r] = "failed"]
  /\ outcome' = [outcome EXCEPT ![r] = [status |-> "error", fail_step |-> step]]

Goto(r, next) ==
  /\ pc' = [pc EXCEPT ![r] = next]
  /\ UNCHANGED outcome

(***************************************************************************)
(* DatabaseWriter.__init__: _get_database_config                           *)
(***************************************************************************)
\* `if not db_config.get('enabled')`
Enabled(section) == section.enabled = "True"

\* lines 194-200: the section is enabled and has a host and a database name
SectionComplete(section) ==
  /\ Enabled(section)
  /\ Truthy(section.host)
  /\ Truthy(section.database)

\* _get_database_config, lines 192-203: the section is returned as it is, or
\* DatabaseWriterError is raised; discover_aws_mysql_database() is not called
GetDatabaseConfig(section, found) ==
  IF SectionComplete(section)
  THEN [raises |-> FALSE, config |-> section]
  ELSE [raises |-> TRUE, config |-> Unresolved]

\* __init__ gets its db_config
ConfigResolved(r) ==
  /\ pc[r] = "constructing"
  /\ ~GetDatabaseConfig(settings, discovered).raises
  /\ db_config' = [db_config EXCEPT ![r] = GetDatabaseConfig(settings, discovered).config]
  /\ connection_params' = [connection_params EXCEPT ![r] =
        ConnectionParams(GetDatabaseConfig(settings, discovered).config.connection_params)]
  /\ Goto(r, "init")
  /\ UNCHANGED <<final_json, batch_size, update_existing, db_exists, table_exists, table,
                 described, active, settings, discovered,
                 records, offset, stats, calls, executed, validation, connections, merge_vars>>

\* __init__ raises DatabaseWriterError: no writer, no run
ConfigRaises(r) ==
  /\ pc[r] = "constructing"
  /\ GetDatabaseConfig(settings, discovered).raises
  /\ Fail(r, "config")
  /\ UNCHANGED <<writer_env, records, offset, stats, calls, executed, validation, connections, merge_vars>>

\* the keyword arguments pymysql.connect takes, of those the model has
ConnectKeywords ==
  {"host", "port", "user", "password", "database",
   "charset", "connect_timeout", "autocommit", "use_unicode", "sql_mode"}

\* MySQLConnectionManager.get_connection can make its call: host, port (3306
\* when absent), user, password, database and **self.connection_params
ManagerConnects(config, params) ==
  /\ DOMAIN params \cap {"host", "port", "user", "password", "database"} = {}
  /\ DOMAIN params \subseteq ConnectKeywords

\* MySQLSchemaManager.get_connection can make its call: connection_config['port'],
\* charset='utf8mb4' and **connection_config.get('connection_params', {}); a
\* keyword given twice, a keyword pymysql.connect does not take or a missing
\* 'port' raises inside the try and becomes DatabaseSchemaError
SchemaConnects(config) ==
  /\ config.port # "absent"
  /\ DOMAIN config.connection_params
       \cap {"host", "port", "user", "password", "database", "charset"} = {}
  /\ DOMAIN config.connection_params \subseteq ConnectKeywords

\* Step 1: test_connection() connects to db_config['database'], runs
\* SELECT 1 and closes the connection; any exception makes it return False
ConnectionOk(r) ==
  /\ pc[r] = "init"
  /\ db_exists
  /\ ManagerConnects(db_config[r], connection_params[r])
  /\ Step(r, <<"test_connection">>)
  /\ Goto(r, "connection_verified")
  /\ UNCHANGED <<writer_env, records, offset, stats, calls, validation, connections, merge_vars>>

\* test_connection() returns False: get_connection raised (nothing is open),
\* or the query raised on the open connection, which the except clause
\* leaves open
ConnectionFails(r) ==
  /\ pc[r] = "init"
  /\ Step(r, <<"test_connection">>)
  /\ Fail(r, "connection")
  /\ \E opened \in {0, 1} : connections' = [connections EXCEPT ![r] = @ + opened]
  /\ UNCHANGED <<writer_env, records, offset, stats, calls, validation, merge_vars>>

\* Step 2: database_exists() answers True
DatabaseFound(r) ==
  /\ pc[r] = "connection_verified"
  /\ db_exists
  /\ SchemaConnects(db_config[r])
  /\ Step(r, <<"ensure_database">>)
  /\ Goto(r, "database_ready")
  /\ UNCHANGED <<writer_env, records, offset, stats, calls, validation, connections, merge_vars>>

\* Step 2: database_exists() answers False (the database is absent, or the
\* check raised) and create_database() succeeds
DatabaseCreated(r) ==
  /\ pc[r] = "connection_verified"
  /\ SchemaConnects(db_config[r])
  /\ Step(r, <<"ensure_database">>)
  /\ db_exists' = TRUE
  /\ Goto(r, "database_ready")
  /\ UNCHANGED <<final_json, batch_size, update_existing, table_exists, table, described, active,
                 settings, discovered, db_config, connection_params,
                 records, offset, stats, calls, validation, connections, merge_vars>>

\* Step 2: create_database() returns False
DatabaseCreateFails(r) ==
  /\ pc[r] = "connection_verified"
  /\ Step(r, <<"ensure_database">>)
  /\ Fail(r, "database")
  /\ UNCHANGED <<writer_env, records, offset, stats, calls, validation, connections, merge_vars>>

\* a Step 3 that raises when the validation reports the table invalid
TableFoundStrict(r) ==
  /\ pc[r] = "database_ready"
  /\ SchemaConnects(db_config[r])
  /\ table_exists
  /\ validation' = [validation EXCEPT ![r] = Append(@, ValidateTableSchema(described))]
  /\ Step(r, <<"setup_schema">>)
  /\ IF ValidateTableSchema(described).valid THEN Goto(r, "schema_ready") ELSE Fail(r, "table")
  /\ UNCHANGED <<writer_env, records, offset, stats, calls, connections, merge_vars>>

\* Step 3: table_exists() answers True; validate_table_schema() reports,
\* whatever it finds the run goes on
TableFound(r) ==
  /\ pc[r] = "database_ready"
  /\ SchemaConnects(db_config[r])
  /\ table_exists
  /\ validation' = [validation EXCEPT ![r] = Append(@, ValidateTableSchema(described))]
  /\ Step(r, <<"setup_schema">>)
  /\ Goto(r, "schema_ready")
  /\ UNCHANGED <<writer_env, records, offset, stats, calls, connections, merge_vars>>

\* Step 3: table_exists() answers False (no table, or the check raised) and
\* create_table() runs CREATE TABLE IF NOT EXISTS
TableCreated(r) ==
  /\ pc[r] = "database_ready"
  /\ SchemaConnects(db_config[r])
  /\ Step(r, <<"setup_schema">>)
  /\ table_exists' = TRUE
  /\ described' = (IF table_exists THEN described ELSE CreatedColumns)
  /\ Goto(r, "schema_ready")
  /\ UNCHANGED <<final_json, batch_size, update_existing, db_exists, table, active,
                 settings, discovered, db_config, connection_params,
                 records, offset, stats, calls, validation, connections, merge_vars>>

\* a Step 3 that only reports a create_table() that returned False
TableCreateFailsReported(r) ==
  /\ pc[r] = "database_ready"
  /\ Step(r, <<"setup_schema">>)
  /\ pc' = [pc EXCEPT ![r] = "schema_ready"]
  /\ outcome' = [outcome EXCEPT ![r] = [status |-> "error", fail_step |-> "table"]]
  /\ UNCHANGED <<writer_env, records, offset, stats, calls, validation, connections, merge_vars>>

\* Step 3: create_table() returns False
TableCreateFails(r) ==
  /\ pc[r] = "database_ready"
  /\ Step(r, <<"setup_schema">>)
  /\ Fail(r, "table")
  /\ UNCHANGED <<writer_env, records, offset, stats, calls, validation, connections, merge_vars>>

\* a validation that accepts a file holding an empty list
InputsValidAnyList(file) == file.state = "ok"

\* _validate_inputs passes: the file exists, parses, is a list (or a dict with
\* 'data') and holds at least one record
InputsValid(file) ==
  /\ file.state = "ok"
  /\ file.records # << >>

\* Step 4
InputsValidated(r) ==
  /\ pc[r] = "schema_ready"
  /\ InputsValid(final_json)
  /\ Step(r, <<"validate_inputs">>)
  /\ Goto(r, "inputs_validated")
  /\ UNCHANGED <<writer_env, records, offset, stats, calls, validation, connections, merge_vars>>

InputsRejected(r) ==
  /\ pc[r] = "schema_ready"
  /\ ~InputsValid(final_json)
  /\ Step(r, <<"validate_inputs">>)
  /\ Fail(r, "inputs")
  /\ UNCHANGED <<writer_env, records, offset, stats, calls, validation, connections, merge_vars>>

\* Step 5: _load_data
LoadData(r) ==
  /\ pc[r] = "inputs_validated"
  /\ records' = [records EXCEPT ![r] = final_json.records]
  /\ Step(r, <<"load_data">>)
  /\ Goto(r, "records_loaded")
  /\ UNCHANGED <<writer_env, offset, stats, calls, validation, connections, merge_vars>>

(***************************************************************************)
(* Step 6: _write_data_to_db, one loop iteration per step                  *)
(***************************************************************************)
\* the (project_id, issue_id) of each row handed to _insert_batch, in order
KeysOf(db_batch) ==
  [j \in DOMAIN db_batch |-> <<db_batch[j]["project_id"], db_batch[j]["issue_id"]>>]

\* a slice that loses the last record of each chunk
ChunkOfShort(recs, i, size) == SubSeq(recs, i + 1, Min(i + size, Len(recs)) - 1)

\* a slice that starts one record early: records[max(i - 1, 0):i + batch_size]
ChunkOfOverlapping(recs, i, size) ==
  SubSeq(recs, IF i > 0 THEN i ELSE 1, Min(i + size, Len(recs)))

\* records[i:i + batch_size]
ChunkOf(recs, i, size) == SubSeq(recs, i + 1, Min(i + size, Len(recs)))

Batch(r) == ChunkOf(records[r], offset[r], batch_size)

InLoop(r) ==
  /\ pc[r] = "records_loaded"
  /\ offset[r] < Len(records[r])

\* batch_count += 1 and the inner loop's total_errors += 1 per raising record
StatsAfterPrepare(st, batch) ==
  [st EXCEPT !.batch_count = @ + 1,
             !.total_errors = @ + PrepareErrors(batch)]

\* a return of cursor.rowcount
InsertBatchReturnsRowcount(data_tuples, affected_rows) == affected_rows

\* what _insert_batch returns on success: len(data_tuples)
InsertBatchReturn(data_tuples, affected_rows) == Len(data_tuples)

\* the entry the model keeps for one _insert_batch call
InsertCall(chunk, db_batch, failed, affected_rows, returned) ==
  [chunk |-> chunk, keys |-> KeysOf(db_batch), failed |-> failed,
   affected_rows |-> affected_rows, returned |-> returned]

\* every record of the chunk failed preparation: db_batch is empty and
\* _insert_batch is not called
ChunkSkipped(r) ==
  /\ InLoop(r)
  /\ LET batch == Batch(r)
     IN  /\ PrepareBatch(batch) = << >>
         /\ stats' = [stats EXCEPT ![r] = StatsAfterPrepare(@, batch)]
  /\ offset' = [offset EXCEPT ![r] = @ + batch_size]
  /\ UNCHANGED <<writer_env, pc, records, calls, executed, outcome, validation, connections, merge_vars>>

\* _insert_batch succeeds: the statement is applied to the table; rowcount is
\* 1 per inserted row and 2 per updated row (0 or 2 for a row updated to the
\* values it had)
ChunkInserted(r) ==
  /\ InLoop(r)
  /\ table_exists
  /\ LET batch == Batch(r)
         db_batch == PrepareBatch(batch)
         res == ExecuteMany(table, db_batch, update_existing)
     IN  /\ db_batch # << >>
         /\ InsertColumns \subseteq DOMAIN described.columns
         /\ ~res.err
         /\ table' = res.table
         /\ \E k \in 0..res.same :
              LET affected_rows == res.affected + 2 * k
                  processed == InsertBatchReturn(db_batch, affected_rows)
              IN  /\ calls' = [calls EXCEPT ![r] =
                        Append(@, InsertCall(stats[r].batch_count + 1, db_batch,
                                             FALSE, affected_rows, processed))]
                  /\ stats' = [stats EXCEPT ![r] =
                        [StatsAfterPrepare(@, batch) EXCEPT !.total_processed = @ + processed]]
  /\ offset' = [offset EXCEPT ![r] = @ + batch_size]
  /\ UNCHANGED <<final_json, batch_size, update_existing, db_exists, table_exists, described,
                 active, settings, discovered, db_config, connection_params,
                 pc, records, executed, outcome, validation, connections, merge_vars>>

\* a chunk failure that ends the run: the error leaves _write_data_to_db and
\* run() raises
ChunkFailedFatal(r) ==
  /\ InLoop(r)
  /\ LET batch == Batch(r)
         db_batch == PrepareBatch(batch)
     IN  /\ db_batch # << >>
         /\ calls' = [calls EXCEPT ![r] =
               Append(@, InsertCall(stats[r].batch_count + 1, db_batch, TRUE, 0, 0))]
         /\ stats' = [stats EXCEPT ![r] = StatsAfterPrepare(@, batch)]
  /\ executed' = [executed EXCEPT ![r] = @ \o <<"write_data">>]
  /\ Fail(r, "write_data")
  /\ connections' = [connections EXCEPT ![r] = @ + 1]
  /\ UNCHANGED <<writer_env, records, offset, validation, merge_vars>>

\* _insert_batch raises (no connection, a duplicate key under plain INSERT,
\* any database error): the except clause of the loop counts the whole chunk
\* as errors and the loop goes on.  connection.close() is the last statement
\* of the try block: the statement that raised leaves the connection it was
\* given open.  (A chunk that fails because get_connection itself raised
\* differs in this count alone, which then stays as it was.)
ChunkFailed(r) ==
  /\ InLoop(r)
  /\ LET batch == Batch(r)
         db_batch == PrepareBatch(batch)
     IN  /\ db_batch # << >>
         /\ calls' = [calls EXCEPT ![r] =
               Append(@, InsertCall(stats[r].batch_count + 1, db_batch, TRUE, 0, 0))]
         /\ stats' = [stats EXCEPT ![r] =
               [StatsAfterPrepare(@, batch) EXCEPT !.total_errors = @ + Len(batch)]]
  /\ offset' = [offset EXCEPT ![r] = @ + batch_size]
  /\ connections' = [connections EXCEPT ![r] = @ + 1]
  /\ UNCHANGED <<writer_env, pc, records, executed, outcome, validation, merge_vars>>

\* the loop is over: _write_data_to_db returns its statistics
WriteDone(r) ==
  /\ pc[r] = "records_loaded"
  /\ offset[r] >= Len(records[r])
  /\ Step(r, <<"write_data">>)
  /\ Goto(r, "written")
  /\ UNCHANGED <<writer_env, records, offset, stats, calls, validation, connections, merge_vars>>

\* get_table_info() (never raises) and the result with status "success"
Finish(r) ==
  /\ pc[r] = "written"
  /\ Step(r, <<"table_info">>)
  /\ pc' = [pc EXCEPT ![r] = "done"]
  /\ outcome' = [outcome EXCEPT ![r] = [status |-> "success", fail_step |-> "none"]]
  /\ UNCHANGED <<writer_env, records, offset, stats, calls, validation, connections, merge_vars>>

Next ==
  \/ \E r \in active : ConnectionOk(r)
  \/ \E r \in active : ConnectionFails(r)
  \/ \E r \in active : DatabaseFound(r)
  \/ \E r \in active : DatabaseCreated(r)
  \/ \E r \in active : DatabaseCreateFails(r)
  \/ \E r \in active : TableFound(r)
  \/ \E r \in active : TableCreated(r)
  \/ \E r \in active : TableCreateFails(r)
  \/ \E r \in active : InputsValidated(r)
  \/ \E r \in active : InputsRejected(r)
  \/ \E r \in active : LoadData(r)
  \/ \E r \in active : ChunkSkipped(r)
  \/ \E r \in active : ChunkInserted(r)
  \/ \E r \in active : ChunkFailed(r)
  \/ \E r \in active : WriteDone(r)
  \/ \E r \in active : Finish(r)

Spec == Init /\ [][Next]_vars

SpecConcurrent == InitConcurrent /\ [][Next]_vars

SpecSchema == InitSchema /\ [][Next]_vars

\* the construction of a writer, then its run
NextConfig ==
  \/ \E r \in active : ConfigResolved(r)
  \/ \E r \in active : ConfigRaises(r)
  \/ \E r \in active : ConnectionOk(r)
  \/ \E r \in active : ConnectionFails(r)
  \/ \E r \in active : DatabaseFound(r)
  \/ \E r \in active : DatabaseCreated(r)
  \/ \E r \in active : DatabaseCreateFails(r)
  \/ \E r \in active : TableFound(r)
  \/ \E r \in active : TableCreated(r)
  \/ \E r \in active : TableCreateFails(r)
  \/ \E r \in active : InputsValidated(r)
  \/ \E r \in active : InputsRejected(r)
  \/ \E r \in active : LoadData(r)
  \/ \E r \in active : ChunkSkipped(r)
  \/ \E r \in active : ChunkInserted(r)
  \/ \E r \in active : ChunkFailed(r)
  \/ \E r \in active : WriteDone(r)
  \/ \E r \in active : Finish(r)

SpecConfig == InitConfig /\ [][NextConfig]_vars

(***************************************************************************)
(* Inputs of the reconciler                                                *)
(***************************************************************************)
IdA == Str(<<"a">>)
IdB == Str(<<"b">>)
One == Str(<<"1">>)
Two == Str(<<"2">>)

MkIssue(pid, iid, date) ==
  [kind |-> "dict",
   val |-> [f \in {"projectId", "issueId", "issueCreationDate"} |->
              IF f = "projectId" THEN pid ELSE IF f = "issueId" THEN iid ELSE Str(date)]]

\* an annotation entry: its ids and the given stage fields, all with one text
MkEntry(pid, iid, fields, text) ==
  [kind |-> "dict",
   val |-> [f \in {"projectId", "issueId"} \cup fields |->
              IF f = "projectId" THEN pid ELSE IF f = "issueId" THEN iid ELSE Str(text)]]

FieldsOf(name) == { SourceOf[f][2] : f \in { g \in DOMAIN SourceOf : SourceOf[g][1] = name } }

IssueA == MkIssue(IdA, One, <<"d", "1">>)
IssueB == MkIssue(IdB, One, <<"d", "2">>)
\* an issue without issueCreationDate that no dataset annotates
IssueBare == [kind |-> "dict", val |-> [f \in {"projectId", "issueId"} |->
                                          IF f = "projectId" THEN IdA ELSE Two]]
IssueNotDict == [kind |-> "other", val |-> EmptyDict]
\* ids with an underscore: project 'a', issue 'b_1' / project 'a_b', issue '1'
IdAB == Str(<<"a", "_", "b">>)
BOne == Str(<<"b", "_", "1">>)
IssueUnder == MkIssue(IdA, BOne, <<"d", "3">>)

IssuePool == {IssueA, IssueB, IssueBare, IssueNotDict, IssueUnder}

EntryFor(name, pid, text) == MkEntry(pid, One, FieldsOf(name), text)

\* the contents the five annotation files are given
DatasetChoices ==
  [descriptions : { << >>,
                    <<EntryFor("descriptions", IdA, Text1)>>,
                    <<EntryFor("descriptions", IdA, Text1),
                      EntryFor("descriptions", IdA, Text2)>>,
                    \* an entry of project 'a_b', an entry whose issueId is the number 1
                    <<EntryFor("descriptions", IdAB, Text2)>>,
                    <<MkEntry(IdA, Num(<<"1">>), FieldsOf("descriptions"), Text2)>> },
   classifications : { <<EntryFor("classifications", IdA, Text1)>>,
                       <<EntryFor("classifications", IdB, Text1)>> },
   similar_issues : { <<EntryFor("similar_issues", IdA, Text1)>>,
                      <<EntryFor("similar_issues", EmptyStr, Text1)>> },
   timeline_predictions :
     { <<EntryFor("timeline_predictions", IdA, Text1)>>,
       <<MkEntry(IdA, One, FieldsOf("timeline_predictions") \ {"issueStartDate"}, Text2)>>,
       <<EntryFor("timeline_predictions", IdB, Text1)>> },
   action_recommendations : { <<EntryFor("action_recommendations", IdA, Text1)>>,
                              <<EntryFor("action_recommendations", IdB, Text2)>> }]

\* the writer does nothing while the reconciler is observed
WriterOff ==
  /\ final_json = [state |-> "missing", records |-> << >>]
  /\ batch_size = 1
  /\ update_existing = TRUE
  /\ db_exists = FALSE
  /\ table_exists = FALSE
  /\ table = << >>
  /\ described = NoTable
  /\ active = {}
  /\ WriterIdle

\* the states of the six files when some file is absent or holds no JSON
FileStates == [FileKeys -> {"ok", "missing", "invalid"}]

\* what the files hold when all parse / the content given to the files that
\* parse when some file is absent or broken
InitMerge ==
  /\ WriterOff
  /\ m_pc = "init"
  /\ \/ /\ files = [k \in FileKeys |-> "ok"]
        /\ all_issues \in SeqsUpTo(IssuePool, MaxIssues)
        /\ data \in DatasetChoices
     \/ /\ files \in FileStates
        /\ all_issues = <<IssueA>>
        /\ data = [name \in DatasetNames |-> <<EntryFor(name, IdA, Text1)>>]
  /\ lookups = << >>
  /\ final_results = << >>
  /\ m_error = NoError
  /\ sinks = NoSinks

(***************************************************************************)
(* PostProcessingPipeline.run, step by step                                *)
(***************************************************************************)
\* json.load of a required file that parses
ContentOf(k) == IF k = "all_issues" THEN all_issues ELSE data[k]

IsMissing(entry) == files[entry[2]] = "missing"

\* a list that stops at the first absent file
FirstMissingFile ==
  IF SelectSeq(required_files, IsMissing) = << >> THEN << >>
  ELSE <<Head(SelectSeq(required_files, IsMissing))[1]>>

\* lines 109-113: missing_files, the names of the files that do not exist
MissingFiles ==
  LET absent == SelectSeq(required_files, IsMissing)
  IN  [i \in DOMAIN absent |-> absent[i][1]]

\* lines 122-132: the file holds no JSON, or `if not data`: it holds an empty
\* list
IsUnreadable(entry) ==
  \/ files[entry[2]] = "invalid"
  \/ files[entry[2]] = "ok" /\ ContentOf(entry[2]) = << >>

\* _validate_inputs: the error it raises, NoError when it returns
ValidateInputs ==
  IF MissingFiles # << >> THEN [kind |-> "missing", names |-> MissingFiles]
  ELSE LET broken == SelectSeq(required_files, IsUnreadable)
       IN  IF broken = << >> THEN NoError
           ELSE [kind |-> IF files[broken[1][2]] = "invalid" THEN "invalid" ELSE "empty",
                 names |-> <<broken[1][1]>>]

MergeInputsOk == ValidateInputs = NoError

\* Step 1 passes
MergeValidated ==
  /\ m_pc = "init"
  /\ MergeInputsOk
  /\ m_pc' = "validated"
  /\ UNCHANGED <<all_issues, data, lookups, final_results, files, m_error, sinks,
                 writer_env, writer_run>>

\* Step 1 raises; run() raises PostProcessingError
MergeRejected ==
  /\ m_pc = "init"
  /\ ~MergeInputsOk
  /\ m_pc' = "failed"
  /\ m_error' = ValidateInputs
  /\ UNCHANGED <<all_issues, data, lookups, final_results, files, sinks,
                 writer_env, writer_run>>

\* Steps 2 and 3: _load_all_data and _create_lookups
MergeCreateLookups ==
  /\ m_pc = "validated"
  /\ lookups' = CreateLookups(data)
  /\ m_pc' = "processing"
  /\ UNCHANGED <<all_issues, data, final_results, files, m_error, sinks,
                 writer_env, writer_run>>

DigitsOf(n) == <<(<<"1", "2", "3", "4", "5", "6", "7", "8", "9">>)[n]>>

\* one iteration of the loop of _process_all_issues
ProcessIssue(results, element, lks) ==
  IF ~CombineRaises(element)
  THEN [raised |-> FALSE, results |-> Append(results, CombineSingleIssue(element.val, lks))]
  ELSE IF ~HandlerRaises(element)
  THEN [raised |-> FALSE,
        results |-> Append(results, SentinelRecord(element.val, DigitsOf(Len(results) + 1)))]
  ELSE [raised |-> TRUE, results |-> results]

MergeProcessIssue ==
  /\ m_pc = "processing"
  /\ Len(final_results) < Len(all_issues)
  /\ LET step == ProcessIssue(final_results, all_issues[Len(final_results) + 1], lookups)
     IN  /\ final_results' = step.results
         /\ m_pc' = IF step.raised THEN "raised" ELSE "processing"
         /\ m_error' = IF step.raised THEN [kind |-> "processing", names |-> << >>]
                       ELSE m_error
  /\ UNCHANGED <<all_issues, data, lookups, files, sinks, writer_env, writer_run>>

\* the loop is over: _process_all_issues returns final_results
MergeReturn ==
  /\ m_pc = "processing"
  /\ Len(final_results) = Len(all_issues)
  /\ m_pc' = "returned"
  /\ UNCHANGED <<all_issues, data, lookups, final_results, files, m_error, sinks,
                 writer_env, writer_run>>

\* Step 5: _save_excel_output writes the Excel file
MergeSaveExcel ==
  /\ m_pc = "returned"
  /\ sinks' = [sinks EXCEPT !.excel = TRUE]
  /\ m_pc' = "excel_saved"
  /\ UNCHANGED <<all_issues, data, lookups, final_results, files, m_error,
                 writer_env, writer_run>>

\* Step 5: writing the Excel file raises
MergeSaveExcelFails ==
  /\ m_pc = "returned"
  /\ m_error' = [kind |-> "save_excel", names |-> << >>]
  /\ m_pc' = "failed"
  /\ UNCHANGED <<all_issues, data, lookups, final_results, files, sinks,
                 writer_env, writer_run>>

\* Step 5: _save_json_output writes the JSON file; run() returns its results
MergeSaveJson ==
  /\ m_pc = "excel_saved"
  /\ sinks' = [sinks EXCEPT !.json = TRUE]
  /\ m_pc' = "done"
  /\ UNCHANGED <<all_issues, data, lookups, final_results, files, m_error,
                 writer_env, writer_run>>

\* Step 5: writing the JSON file raises
MergeSaveJsonFails ==
  /\ m_pc = "excel_saved"
  /\ m_error' = [kind |-> "save_json", names |-> << >>]
  /\ m_pc' = "failed"
  /\ UNCHANGED <<all_issues, data, lookups, final_results, files, sinks,
                 writer_env, writer_run>>

NextMerge ==
  \/ MergeValidated
  \/ MergeRejected
  \/ MergeCreateLookups
  \/ MergeProcessIssue
  \/ MergeReturn
  \/ MergeSaveExcel
  \/ MergeSaveExcelFails
  \/ MergeSaveJson
  \/ MergeSaveJsonFails

SpecMerge == InitMerge /\ [][NextMerge]_vars

(***************************************************************************)
(* Properties of the reconciler, under SpecMerge                           *)
(***************************************************************************)
\* _process_all_issues is over: it returned, or an exception left it
ProcessingOver == m_pc \in {"returned", "raised"}

\* C1: cardinality invariance. Whenever _process_all_issues is over on N base
\* issues it has returned exactly N records, one per base issue and in the
\* issues' order, whether the issue matched every lookup, none, or combining
\* it raised. Violated: a base issue that is no JSON object makes combining
\* raise, the except clause raises on it again, and no list is returned.
C1_CardinalityInvariance ==
  ProcessingOver =>
    /\ m_pc = "returned"
    /\ Len(final_results) = Len(all_issues)

\* the issue at position i is a JSON object whose key no lookup holds
MissesEveryLookup(i) ==
  /\ all_issues[i].kind = "dict"
  /\ \A name \in DatasetNames :
       \A e \in 1..Len(data[name]) :
         LET entry == data[name][e].val
         IN  \/ ~Truthy(DictGet(entry, "projectId", EmptyStr))
             \/ ~Truthy(DictGet(entry, "issueId", EmptyStr))
             \/ IssueKey(DictGet(entry, "projectId", EmptyStr),
                         DictGet(entry, "issueId", EmptyStr))
                # IssueKey(DictGet(all_issues[i].val, "projectId", EmptyStr),
                           DictGet(all_issues[i].val, "issueId", EmptyStr))

\* C2: fallback correctness. The record of a base issue whose key is in none
\* of the five lookups carries the issue's projectId and issueId, the empty
\* string in every annotation field, and the issue's issueCreationDate (the
\* empty string when the issue has none) as 'Issue Start Date'.
C2_FallbackCorrectness ==
  \A i \in 1..Len(final_results) :
    MissesEveryLookup(i) =>
      LET issue == all_issues[i].val
          rec == final_results[i]
      IN  /\ rec["Project ID"] = issue["projectId"]
          /\ rec["Issue ID"] = issue["issueId"]
          /\ rec["Issue Start Date"] =
               (IF "issueCreationDate" \in DOMAIN issue
                THEN issue["issueCreationDate"] ELSE EmptyStr)
          /\ \A f \in CanonicalFields \ {"Project ID", "Issue ID", "Issue Start Date"} :
               rec[f] = EmptyStr

\* a returned run in which an issue with a creation date missed every lookup
C2_Witness ==
  /\ m_pc = "returned"
  /\ \E i \in 1..Len(final_results) :
       /\ MissesEveryLookup(i)
       /\ "issueCreationDate" \in DOMAIN all_issues[i].val
       /\ final_results[i]["Issue Start Date"] = Str(<<"d", "2">>)
       /\ final_results[i]["Short Description"] = EmptyStr

(***************************************************************************)
(* Properties of concurrent writer runs, under SpecConcurrent              *)
(***************************************************************************)
\* run r has just had an _insert_batch call succeed
InsertSucceeds(r) ==
  /\ Len(calls'[r]) = Len(calls[r]) + 1
  /\ ~calls'[r][Len(calls'[r])].failed

\* the position in db_batch of the last row with the business key of row j
LastWrite(db_batch, j) ==
  CHOOSE k \in DOMAIN db_batch :
    /\ SameBusinessKey(db_batch[k], db_batch[j])
    /\ \A l \in DOMAIN db_batch : SameBusinessKey(db_batch[l], db_batch[j]) => l <= k

\* C3: key uniqueness under upsert. With update_existing on, every successful
\* insert call leaves, for each row it submitted, exactly one table row with
\* that row's (project_id, issue_id), and every non-key column of that row
\* holds the value of the latest submitted row with the key; so of two writes
\* of one key, in one chunk, in two chunks or by two runs, the later one wins.
C3_UpsertLastWriteWins ==
  [][\A r \in active :
       (update_existing /\ InsertSucceeds(r)) =>
         LET db_batch == PrepareBatch(Batch(r))
         IN  \A j \in DOMAIN db_batch :
               LET hits == {i \in DOMAIN table' : SameBusinessKey(table'[i], db_batch[j])}
               IN  /\ Cardinality(hits) = 1
                   /\ \A i \in hits : \A c \in InsertColumns \ KeyColumns :
                        table'[i][c] = db_batch[LastWrite(db_batch, j)][c]]_vars

\* both runs were given [RecA1, RecA2] in chunks of one; r1 wrote both, r2
\* then wrote RecA1 over them: one row, with RecA1's content
C3_Witness ==
  /\ update_existing
  /\ batch_size = 1
  /\ final_json.records = <<RecA1, RecA2>>
  /\ Len(calls["r1"]) = 2 /\ \A j \in 1..2 : ~calls["r1"][j].failed
  /\ Len(calls["r2"]) = 1 /\ ~calls["r2"][1].failed
  /\ Len(table) = 1
  /\ table[1]["short_description"] = Str(Text1)

\* the row a record of a run's input is prepared into
WrittenBy(r, k) == PrepareRecordForDb(records[r][k])

\* C4: at most one row per business key. After any interleaving of the insert
\* calls of concurrent runs, with update_existing on or off, no two table rows
\* have the same (project_id, issue_id), and the non-key columns of every row
\* are those of one of the records some run submitted with that key.
C4_OneRowPerKey ==
  /\ \A i, j \in DOMAIN table : SameBusinessKey(table[i], table[j]) => i = j
  /\ \A i \in DOMAIN table :
       \E r \in active : \E k \in DOMAIN records[r] :
         /\ ~PrepareRaises(records[r][k])
         /\ SameBusinessKey(table[i], WrittenBy(r, k))
         /\ \A c \in InsertColumns \ KeyColumns : table[i][c] = WrittenBy(r, k)[c]

\* the key of RecA1 and RecA2 as submitted
KeyA1 == <<Str(<<"a">>), Str(<<"1">>)>>

\* both runs are done, each had a successful call that submitted key (a, 1),
\* and the table holds one row
C4_Witness ==
  /\ \A r \in Runs :
       /\ pc[r] = "done"
       /\ \E j \in DOMAIN calls[r] :
            /\ ~calls[r][j].failed
            /\ \E k \in DOMAIN calls[r][j].keys : calls[r][j].keys[k] = KeyA1
  /\ Len(table) = 1

(***************************************************************************)
(* Properties of one writer run, under Spec                                *)
(***************************************************************************)
\* a record whose 'Project ID' or 'Issue ID' is missing, null, or empty once
\* surrounding blanks are removed
KeyUnusable(element) ==
  /\ element.kind = "dict"
  /\ \E f \in {"Project ID", "Issue ID"} :
       \/ f \notin DOMAIN element.val
       \/ element.val[f] = None
       \/ \A i \in DOMAIN element.val[f][2] : element.val[f][2][i] = " "

\* a record preparation turns into a row
Usable(element) == element.kind = "dict" /\ ~KeyUnusable(element)

CountIn(s, Test(_)) == Cardinality({j \in DOMAIN s : Test(s[j])})

\* the insert calls run r made in the step just taken
NewCalls(r) == SubSeq(calls'[r], Len(calls[r]) + 1, Len(calls'[r]))

WriteOver(r) == pc[r] \in {"written", "done"}

CeilDiv(m, b) == (m + b - 1) \div b

\* the records of the c-th slice of batch_size records of run r's input
Slice(r, c) ==
  SubSeq(records[r], (c - 1) * batch_size + 1, Min(c * batch_size, Len(records[r])))

\* the slices of run r's input that hold a usable record
SlicesToInsert(r) ==
  {c \in 1..CeilDiv(Len(records[r]), batch_size) : CountIn(Slice(r, c), Usable) > 0}

\* the keys of the usable records of a list, as preparation writes them
PreparedKeys(recs) ==
  LET usable == SelectSeq(recs, Usable)
  IN  [j \in DOMAIN usable |->
         <<PrepareRecordForDb(usable[j])["project_id"],
           PrepareRecordForDb(usable[j])["issue_id"]>>]

Range(s) == {s[j] : j \in DOMAIN s}

\* C6 as stated: chunking completeness. A finished write step over M records
\* that pass preparation, with batch size B, has issued exactly ceil(M/B)
\* insert calls, and the set of keys passed is the set of the input's keys
\* less the rejected records' keys. Violated: the input is sliced before
\* preparation, so usable records spread over more slices than ceil(M/B).
C6_ChunkingCompleteness ==
  \A r \in active :
    WriteOver(r) =>
      /\ Len(calls[r]) = CeilDiv(CountIn(records[r], Usable), batch_size)
      /\ UNION {Range(calls[r][j].keys) : j \in DOMAIN calls[r]}
           = Range(PreparedKeys(records[r]))

\* C6 amended: the N input records are cut into ceil(N/B) slices of B before
\* preparation; a finished write step has issued exactly one insert call for
\* each slice that holds a record passing preparation, in slice order, with
\* the prepared keys of that slice's passing records in input order: between
\* ceil(M/B) and min(M, ceil(N/B)) calls, which together pass the key of
\* every passing record once and of no rejected record.
C6_OneCallPerUsableSlice ==
  \A r \in active :
    WriteOver(r) =>
      /\ {calls[r][j].chunk : j \in DOMAIN calls[r]} = SlicesToInsert(r)
      /\ Len(calls[r]) = Cardinality(SlicesToInsert(r))
      /\ \A j \in DOMAIN calls[r] :
           calls[r][j].keys = PreparedKeys(Slice(r, calls[r][j].chunk))
      /\ \A i, j \in DOMAIN calls[r] : i < j => calls[r][i].chunk < calls[r][j].chunk
      /\ Len(calls[r]) >= CeilDiv(CountIn(records[r], Usable), batch_size)
      /\ Len(calls[r]) <= CountIn(records[r], Usable)

\* [RecA1, RecBlankKey, RecB] in slices of two: two records pass, ceil(2/2)
\* is one, and two calls were issued
C6_Witness ==
  /\ batch_size = 2
  /\ records["r1"] = <<RecA1, RecBlankKey, RecB>>
  /\ pc["r1"] = "done"
  /\ Len(calls["r1"]) = 2
  /\ calls["r1"][2].keys = <<<<Str(<<"b">>), Str(<<"1">>)>>>>

\* the sum of a sequence of numbers
RECURSIVE SumSeq(_)
SumSeq(ns) == IF ns = << >> THEN 0 ELSE Head(ns) + SumSeq(Tail(ns))

\* the sum of F over the calls of a list
SumCalls(cs, F(_)) == SumSeq([j \in DOMAIN cs |-> F(cs[j])])

\* the records of the slice a failed call was for (none for a call that succeeded)
FailedRecords(r, call) == IF call.failed THEN Len(Slice(r, call.chunk)) ELSE 0

\* C7 as stated: a chunk-level database failure is fatal to the run. An insert
\* call that failed is the last call of its run, and the run does not go on
\* to finish the write step or to report success. Violated: the loop's except
\* clause swallows the failure and the run goes on to the next chunk and to
\* status "success".
C7_ChunkFailureFatal ==
  \A r \in active : \A j \in DOMAIN calls[r] :
    calls[r][j].failed =>
      /\ j = Len(calls[r])
      /\ ~WriteOver(r)
      /\ outcome[r].status # "success"

\* C7 amended: a chunk-level database failure is not fatal. The failed chunk
\* is not resubmitted (no slice gets two calls), its records are added to
\* total_errors, the chunks after it are still submitted, no run fails once
\* it has issued an insert call, and the run ends DONE with status "success".
C7_ChunkFailureIsolated ==
  \A r \in active :
    /\ \A i, j \in DOMAIN calls[r] : i < j => calls[r][i].chunk < calls[r][j].chunk
    /\ pc[r] = "failed" => calls[r] = << >>
    /\ WriteOver(r) =>
         /\ {calls[r][j].chunk : j \in DOMAIN calls[r]} = SlicesToInsert(r)
         /\ stats[r].total_errors =
              (Len(records[r]) - CountIn(records[r], Usable))
              + SumCalls(calls[r], LAMBDA c : FailedRecords(r, c))
    /\ pc[r] = "done" => outcome[r].status = "success"

\* a run that reported success after its first insert call failed and its
\* second succeeded
C7_Witness ==
  /\ pc["r1"] = "done"
  /\ outcome["r1"].status = "success"
  /\ Len(calls["r1"]) = 2
  /\ calls["r1"][1].failed
  /\ ~calls["r1"][2].failed
  /\ stats["r1"].total_errors = batch_size

\* the rows a call submitted, and the rows the engine counted for it
Submitted(call) == IF call.failed THEN 0 ELSE Len(call.keys)
Affected(call) == IF call.failed THEN 0 ELSE call.affected_rows

\* C8 as stated: the successful-row count of an insert call is the engine's
\* affected-row count for the statement, and total_processed is the sum of
\* these. Violated: an updated row counts 2 (or 0) in the engine and 1 in the
\* writer.
C8_ReportedIsAffectedRows ==
  \A r \in active :
    /\ \A j \in DOMAIN calls[r] :
         ~calls[r][j].failed => calls[r][j].returned = calls[r][j].affected_rows
    /\ stats[r].total_processed = SumCalls(calls[r], Affected)

\* C8 amended: the successful-row count of an insert call is the number of
\* rows submitted in the call (len(data_tuples)), whatever the engine's
\* affected-row count, which is only logged; total_processed is the sum of
\* the submitted rows of the calls that succeeded.
C8_ReportedIsSubmittedRows ==
  \A r \in active :
    /\ \A j \in DOMAIN calls[r] :
         ~calls[r][j].failed => calls[r][j].returned = Len(calls[r][j].keys)
    /\ stats[r].total_processed = SumCalls(calls[r], Submitted)

\* an upsert of one row over an existing row: the engine counted 2 rows, the
\* writer reported 1
C8_Witness ==
  /\ update_existing
  /\ \E j \in DOMAIN calls["r1"] :
       /\ ~calls["r1"][j].failed
       /\ Len(calls["r1"][j].keys) = 1
       /\ calls["r1"][j].affected_rows = 2
       /\ calls["r1"][j].returned = 1
  /\ stats["r1"].total_processed = 2

\* the steps of run() in the order of its code, and the position a run is at
\* once the step has succeeded
StepOrder ==
  <<"test_connection", "ensure_database", "setup_schema", "validate_inputs",
    "load_data", "write_data", "table_info">>
PositionAfter ==
  <<"connection_verified", "database_ready", "schema_ready", "inputs_validated",
    "records_loaded", "written", "done">>

\* C9: a run moves through its steps in order: connection verified, database
\* and schema ready, inputs validated, records loaded, written, done. The
\* steps a run has executed are always an initial part of that order, so no
\* step is skipped or executed twice; the run's position is the one its last
\* step leads to, or FAILED when that step met an unrecoverable error; a run
\* that is DONE or FAILED executes nothing more.
C9_StepsInOrder ==
  [][\A r \in active :
       LET n == Len(executed'[r])
       IN  /\ n <= Len(StepOrder)
           /\ executed'[r] = SubSeq(StepOrder, 1, n)
           /\ n >= Len(executed[r])
           /\ pc'[r] \in (IF n = 0 THEN {"init"} ELSE {PositionAfter[n], "failed"})
           /\ pc'[r] = "failed" <=> outcome'[r].status = "error"
           /\ pc'[r] = "done" <=> outcome'[r].status = "success"
           /\ pc[r] \in {"done", "failed"} =>
                /\ pc'[r] = pc[r]
                /\ executed'[r] = executed[r]
                /\ outcome'[r] = outcome[r]
                /\ calls'[r] = calls[r]]_vars

\* a run that executed all seven steps and is DONE
C9_Witness ==
  /\ pc["r1"] = "done"
  /\ executed["r1"] = StepOrder
  /\ outcome["r1"].status = "success"
  /\ calls["r1"] # << >>

\* the final JSON file passes validation
FileUsable == final_json.state = "ok" /\ final_json.records # << >>

\* C10 as stated: a configuration error in the inputs aborts the run before
\* any database interaction. A run given a missing, unparsable, misshapen or
\* empty final JSON file executes no step that talks to the database.
\* Violated: input validation is the fourth step, after the connection test
\* and the database and table set-up.
C10_InputErrorBeforeDatabase ==
  \A r \in active :
    ~FileUsable =>
      \A n \in DOMAIN executed[r] :
        executed[r][n] \notin {"test_connection", "ensure_database", "setup_schema"}

\* C10 amended: a run given a missing or invalid final JSON file aborts before
\* it loads a record or issues an insert call, so it writes no row; but it
\* aborts at the fourth step, after the connection test, the database check
\* (and creation) and the table check (and creation or validation).
C10_InputErrorBeforeWrite ==
  \A r \in active :
    ~FileUsable =>
      /\ records[r] = << >>
      /\ calls[r] = << >>
      /\ table = << >>
      /\ pc[r] \notin {"inputs_validated", "records_loaded", "written", "done"}
      /\ outcome[r].fail_step = "inputs" =>
           /\ pc[r] = "failed"
           /\ executed[r] = SubSeq(StepOrder, 1, 4)
           /\ db_exists /\ table_exists

\* a run that failed on a missing file after the database and the table,
\* absent before it, were created
C10_Witness ==
  /\ final_json.state = "missing"
  /\ pc["r1"] = "failed"
  /\ outcome["r1"].fail_step = "inputs"
  /\ executed["r1"] = SubSeq(StepOrder, 1, 4)
  /\ table_exists

(***************************************************************************)
(* Properties of one writer run against a drifted table, under SpecSchema  *)
(***************************************************************************)
\* run r validated the existing table and the validation reported it invalid
DriftReported(r) == validation[r] # << >> /\ ~validation[r][1].valid

\* C11: drift non-fatality. The step that validates an existing table leaves
\* the run at "schema ready" with no error recorded, whatever the validation
\* reports (a missing column, an extra column, a type mismatch, a validation
\* error); a run whose validation reported the table invalid never fails at
\* the table step, and from "schema ready" on its next step is decided by the
\* input file alone, as for a run whose validation reported valid: it goes on
\* to input validation, loading and the write step.
C11_DriftNonFatal ==
  [][\A r \in active :
       /\ validation'[r] # validation[r] =>
            /\ pc[r] = "database_ready" /\ pc'[r] = "schema_ready"
            /\ outcome'[r] = outcome[r]
            /\ Len(validation'[r]) = 1
       /\ DriftReported(r)' =>
            /\ outcome'[r].fail_step \in {"none", "inputs"}
            /\ pc'[r] = "schema_ready" =>
                 /\ (ENABLED InputsValidated(r))' <=> InputsValid(final_json)
                 /\ (ENABLED InputsRejected(r))' <=> ~InputsValid(final_json)
            /\ pc'[r] = "inputs_validated" => (ENABLED LoadData(r))'
            /\ (pc'[r] = "records_loaded" /\ offset'[r] < Len(records'[r])) =>
                 (ENABLED (ChunkSkipped(r) \/ ChunkFailed(r) \/ ChunkInserted(r)))'
            /\ (pc'[r] = "records_loaded" /\ offset'[r] >= Len(records'[r])) =>
                 (ENABLED WriteDone(r))']_vars

\* a run that found a column missing from the table, went on, attempted its
\* insert call and ended DONE
C11_Witness ==
  /\ DriftReported("r1")
  /\ validation["r1"][1].missing_columns = {"strategic_best_practice"}
  /\ pc["r1"] = "done"
  /\ Len(calls["r1"]) = 1
  /\ calls["r1"][1].failed


(***************************************************************************)
(* C12                                                                     *)
(***************************************************************************)
CreationFailed(r) == outcome[r].fail_step \in {"database", "table"}

\* no step of run r can be taken any more
RunEnded(r) ==
  ~ENABLED (\/ ConnectionOk(r) \/ ConnectionFails(r)
            \/ DatabaseFound(r) \/ DatabaseCreated(r) \/ DatabaseCreateFails(r)
            \/ TableFound(r) \/ TableCreated(r) \/ TableCreateFails(r)
            \/ InputsValidated(r) \/ InputsRejected(r) \/ LoadData(r)
            \/ ChunkSkipped(r) \/ ChunkInserted(r) \/ ChunkFailed(r)
            \/ WriteDone(r) \/ Finish(r))

\* C12: creation failure is fatal. Once create_database() or create_table()
\* of a run has returned False, the run has failed and is over: it has
\* executed no step after the failing one, it has loaded no record, made no
\* insert call, counted nothing and left the table without any row.
C12_CreationFailureFatal ==
  \A r \in active :
    CreationFailed(r) =>
      /\ pc[r] = "failed"
      /\ outcome[r].status = "error"
      /\ RunEnded(r)
      /\ executed[r][Len(executed[r])] =
           (IF outcome[r].fail_step = "database" THEN "ensure_database" ELSE "setup_schema")
      /\ records[r] = << >>
      /\ calls[r] = << >>
      /\ stats[r] = NoStats
      /\ table = << >>

\* the table is absent, creating it failed, and the file held records to write
C12_Witness ==
  /\ CreationFailed("r1")
  /\ outcome["r1"].fail_step = "table"
  /\ ~table_exists
  /\ FileUsable
  /\ Len(final_json.records) = MaxRecords
  /\ executed["r1"] = <<"test_connection", "ensure_database", "setup_schema">>

(***************************************************************************)
(* C13                                                                     *)
(***************************************************************************)
\* the mapped columns declared VARCHAR(n)
VarcharMapped == {c \in MappedColumns : table_columns[c].base = "VARCHAR"}

\* the first n characters of s
FirstChars(s, n) == [i \in 1..(IF Len(s) < n THEN Len(s) ELSE n) |-> s[i]]

\* some VARCHAR field of the record is longer, trimmed, than its column
OverLong(element) ==
  /\ element.kind = "dict"
  /\ \E c \in VarcharMapped :
       Len(CleanValue(element.val, OriginalField(c))) > table_columns[c].width

\* the insert call run r made for the chunk holding its k-th record
CallsFor(r, k) ==
  {j \in DOMAIN calls[r] : calls[r][j].chunk = CeilDiv(k, batch_size)}

\* C13: truncation. For every record a run loaded and every mapped column
\* declared VARCHAR(n): a trimmed value longer than n is prepared as exactly
\* its first n characters, no prepared value is longer than n, and the record
\* is not rejected for it: once its chunk is processed, the chunk's insert
\* call carries the record's truncated key. No table row holds a value longer
\* than its VARCHAR column.
C13_Truncation ==
  /\ \A r \in active : \A k \in DOMAIN records[r] :
       LET rec == records[r][k]
           row == PrepareRecordForDb(rec)
       IN  Usable(rec) =>
             /\ ~PrepareRaises(rec)
             /\ \A c \in VarcharMapped :
                  LET n == table_columns[c].width
                      trimmed == CleanValue(rec.val, OriginalField(c))
                  IN  /\ Len(trimmed) > n => row[c] = Str(FirstChars(trimmed, n))
                      /\ (0 < Len(trimmed) /\ Len(trimmed) <= n) => row[c] = Str(trimmed)
                      /\ row[c] # None => Len(row[c][2]) <= n
             /\ offset[r] >= k =>
                  \E j \in CallsFor(r, k) :
                    <<row["project_id"], row["issue_id"]>> \in Range(calls[r][j].keys)
  /\ \A i \in DOMAIN table : \A c \in VarcharMapped :
       table[i][c] # None => Len(table[i][c][2]) <= table_columns[c].width

\* the record with every VARCHAR field over its width was inserted: its row
\* holds the first 100, 300 and 50 characters
C13_Witness ==
  /\ records["r1"] = <<RecWide>>
  /\ OverLong(RecWide)
  /\ pc["r1"] = "done"
  /\ Len(table) = 1
  /\ table[1]["project_id"] = Str(Rep("w", 100))
  /\ table[1]["project_issue_class"] = Str(Rep("w", 300))
  /\ table[1]["similar_issue_2_issue_id"] = Str(Rep("w", 100))
  /\ table[1]["predicted_end_date"] = Str(Rep("w", 50))

(***************************************************************************)
(* C14                                                                     *)
(***************************************************************************)
ConfigFailed(r) == outcome[r].fail_step = "config"

\* C14: endpoint resolution fails only when neither target is usable. Once
\* the writer's configuration is resolved: an enabled section with host and
\* database name is the db_config, as it is; otherwise the db_config has the
\* discovered instance's host, and the construction fails only if discovery
\* found no instance. Violated: _get_database_config never calls the
\* discovery, so a disabled or incomplete section fails the construction
\* although an instance would be discovered.
C14_ResolutionFallsBack ==
  \A r \in active :
    pc[r] # "constructing" =>
      /\ SectionComplete(settings) =>
           /\ ~ConfigFailed(r)
           /\ db_config[r] = settings
      /\ ~SectionComplete(settings) =>
           /\ ConfigFailed(r) <=> ~Truthy(discovered.host)
           /\ ~ConfigFailed(r) => db_config[r].host = discovered.host

(***************************************************************************)
(* C15                                                                     *)
(***************************************************************************)
AbsentFiles == {k \in FileKeys : files[k] = "missing"}

\* some required file is absent, holds no JSON, or holds an empty list
BadInputs ==
  \E k \in FileKeys : files[k] # "ok" \/ ContentOf(k) = << >>

\* the names of _validate_inputs for the files of a set
NamesOf(keys) == { required_files[i][1] : i \in {j \in DOMAIN required_files :
                                                  required_files[j][2] \in keys} }

NothingReconciled ==
  /\ lookups = << >>
  /\ final_results = << >>
  /\ sinks = NoSinks

\* C15: reconciler input validation. With a required input file absent,
\* empty or not valid JSON, the only step the run can take is to fail; once
\* it has, it stays failed with its one error, which names every absent file
\* (each once, no other file) when a file is absent; nothing is reconciled
\* and neither the Excel nor the JSON file is written.
C15_InputValidation ==
  BadInputs =>
    /\ m_pc \in {"init", "failed"}
    /\ NothingReconciled
    /\ m_pc = "init" => (ENABLED MergeRejected /\ ~ENABLED MergeValidated)
    /\ m_pc = "failed" =>
         /\ ~ENABLED NextMerge
         /\ m_error.kind \in {"missing", "empty", "invalid"}
         /\ AbsentFiles # {} =>
              /\ m_error.kind = "missing"
              /\ Range(m_error.names) = NamesOf(AbsentFiles)
              /\ Len(m_error.names) = Cardinality(AbsentFiles)
         /\ AbsentFiles = {} => Len(m_error.names) = 1

\* two files are absent and a third holds no JSON: the run failed naming the
\* two
C15_Witness ==
  /\ m_pc = "failed"
  /\ files["descriptions"] = "missing"
  /\ files["timeline_predictions"] = "missing"
  /\ files["classifications"] = "invalid"
  /\ m_error.names = <<"Description Output", "Timeline Predictions Output">>

(***************************************************************************)
(* C16                                                                     *)
(***************************************************************************)
\* the key _combine_single_issue looks the i-th base issue up with
KeyOfIssue(i) ==
  IssueKey(DictGet(all_issues[i].val, "projectId", EmptyStr),
           DictGet(all_issues[i].val, "issueId", EmptyStr))

\* the output fields read from one annotation dataset
FieldsFrom(name) == {f \in DOMAIN SourceOf : SourceOf[f][1] = name}

\* what a field holds when nothing is copied into it: '', and the issue's
\* creation date for 'Issue Start Date' (C2)
BlankOf(f, i) ==
  IF f = "Issue Start Date"
  THEN DictGet(all_issues[i].val, "issueCreationDate", EmptyStr)
  ELSE EmptyStr

\* C16: per-dataset independence of the join. In every record the reconciler
\* has produced, dataset by dataset: when the dataset's lookup has no entry
\* for the issue's key, that dataset's fields (and no other) are blank; when
\* it has one, each field the entry carries is copied unchanged, whatever the
\* other datasets hold for that key.
C16_PerDatasetIndependence ==
  \A i \in DOMAIN final_results : \A name \in DatasetNames : \A f \in FieldsFrom(name) :
    IF KeyOfIssue(i) \in DOMAIN lookups[name]
    THEN LET entry == lookups[name][KeyOfIssue(i)]
         IN  IF SourceOf[f][2] \in DOMAIN entry
             THEN final_results[i][f] = entry[SourceOf[f][2]]
             ELSE final_results[i][f] = BlankOf(f, i)
    ELSE final_results[i][f] = BlankOf(f, i)

\* an issue with no description entry and with a classification entry: its
\* descriptions are empty, its class is the entry's
C16_Witness ==
  /\ m_pc = "returned"
  /\ \E i \in DOMAIN final_results :
       /\ KeyOfIssue(i) \notin DOMAIN lookups["descriptions"]
       /\ KeyOfIssue(i) \in DOMAIN lookups["classifications"]
       /\ final_results[i]["Short Description"] = EmptyStr
       /\ final_results[i]["Long Description"] = EmptyStr
       /\ final_results[i]["Project Issue class"] = Str(Text1)

(***************************************************************************)
(* C17                                                                     *)
(***************************************************************************)
\* the loop of _process_all_issues has dealt with the i-th base issue
Attempted(i) ==
  \/ i <= Len(final_results)
  \/ m_pc = "raised" /\ i = Len(final_results) + 1

\* classification, similar-issue slots, timeline and recommendation fields
AnnotationFields ==
  CanonicalFields \ {"Project ID", "Issue ID", "Short Description", "Long Description",
                     "Issue Start Date"}

\* C17: sentinel substitution. For every base issue the loop has dealt with
\* and whose combining raised, the output holds a record at the issue's
\* position that shows the processing-error marker in its description and
\* has every annotation field empty. Violated: combining raises only on a
\* base issue that is no JSON object, the except clause reads the issue with
\* issue.get too and raises on it, and no record is substituted (C1).
C17_SentinelSubstitution ==
  \A i \in DOMAIN all_issues :
    (Attempted(i) /\ CombineRaises(all_issues[i])) =>
      /\ i \in DOMAIN final_results
      /\ final_results[i]["Short Description"] = Str(<<"Processing error: ">>)
      /\ \A f \in AnnotationFields : final_results[i][f] = EmptyStr

(***************************************************************************)
(* C18                                                                     *)
(***************************************************************************)
\* the i-th output record carries the ids of the i-th base issue
CarriesIds(i) ==
  /\ final_results[i]["Project ID"] = DictGet(all_issues[i].val, "projectId", EmptyStr)
  /\ final_results[i]["Issue ID"] = DictGet(all_issues[i].val, "issueId", EmptyStr)

\* C18: order preservation. When _process_all_issues is over, for every i
\* whose base issue is a JSON object, the i-th output record exists and
\* carries that issue's projectId and issueId, also when an earlier issue's
\* combining raised and when base issues repeat a key. Violated: an earlier
\* base issue that is no JSON object ends the loop with an exception (C1),
\* and the issues after it get no record.
C18_OrderPreservation ==
  ProcessingOver =>
    \A i \in DOMAIN all_issues :
      all_issues[i].kind = "dict" => (i \in DOMAIN final_results /\ CarriesIds(i))

\* what holds of the records that are produced: each is at its issue's
\* position, repeated keys included
C18_OrderOfProducedRecords ==
  /\ \A i \in DOMAIN final_results : CarriesIds(i)
  /\ m_pc = "returned" => Len(final_results) = Len(all_issues)

(***************************************************************************)
(* C19                                                                     *)
(***************************************************************************)
\* the positions in a dataset of the entries with the given ids
EntriesWith(name, project_id, issue_id) ==
  {e \in DOMAIN data[name] :
     /\ DictGet(data[name][e].val, "projectId", EmptyStr) = project_id
     /\ DictGet(data[name][e].val, "issueId", EmptyStr) = issue_id}

Last(S) == CHOOSE e \in S : \A d \in S : d <= e

LookupsBuilt == m_pc \in {"processing", "returned", "raised", "excel_saved", "done"}

\* C19: last-write-wins. Once the lookups are built, for every dataset and
\* every (projectId, issueId) some entry of the dataset carries (both
\* non-empty), the lookup maps the key to the dataset's last entry with these
\* ids; and every record produced for a base issue with these ids has that
\* dataset's fields from this last entry, whatever the earlier entries hold.
C19_LastWriteWins ==
  LookupsBuilt =>
    \A name \in DatasetNames : \A e \in DOMAIN data[name] :
      LET project_id == DictGet(data[name][e].val, "projectId", EmptyStr)
          issue_id == DictGet(data[name][e].val, "issueId", EmptyStr)
          last == data[name][Last(EntriesWith(name, project_id, issue_id))].val
      IN  (Truthy(project_id) /\ Truthy(issue_id)) =>
            /\ IssueKey(project_id, issue_id) \in DOMAIN lookups[name]
            /\ lookups[name][IssueKey(project_id, issue_id)] = last
            /\ \A i \in DOMAIN final_results :
                 (/\ DictGet(all_issues[i].val, "projectId", EmptyStr) = project_id
                  /\ DictGet(all_issues[i].val, "issueId", EmptyStr) = issue_id) =>
                   \A f \in FieldsFrom(name) :
                     SourceOf[f][2] \in DOMAIN last =>
                       final_results[i][f] = last[SourceOf[f][2]]

\* two description entries for one key with different texts: the record has
\* the second entry's
C19_Witness ==
  /\ m_pc = "returned"
  /\ Len(data["descriptions"]) = 2
  /\ Cardinality(EntriesWith("descriptions", IdA, One)) = 2
  /\ data["descriptions"][1].val["shortDescription"] = Str(Text1)
  /\ data["descriptions"][2].val["shortDescription"] = Str(Text2)
  /\ \E i \in DOMAIN final_results :
       /\ final_results[i]["Project ID"] = IdA
       /\ final_results[i]["Issue ID"] = One
       /\ final_results[i]["Short Description"] = Str(Text2)

(***************************************************************************)
(* C20                                                                     *)
(***************************************************************************)
\* the records of a chunk whose preparation does not fail, in input order
Survivors(batch) == SelectSeq(batch, Usable)

KeyConflict(tbl, db_batch) ==
  \E j \in DOMAIN db_batch :
    \/ \E i \in DOMAIN tbl : SameBusinessKey(tbl[i], db_batch[j])
    \/ \E k \in 1..(j - 1) : SameBusinessKey(db_batch[k], db_batch[j])

\* C21: plain insert without update-existing. With update_existing off, a
\* loop iteration whose statement carries a key that already has a row (or
\* carries one key twice) makes one insert call and that call fails: no
\* table row is changed or added, nothing is counted as processed, and the
\* chunk's records are counted as errors; the conflict is never skipped
\* silently.
C21_PlainInsertConflict ==
  [][\A r \in active :
       (~update_existing /\ offset'[r] # offset[r]
          /\ KeyConflict(table, PrepareBatch(Batch(r)))) =>
         /\ Len(NewCalls(r)) = 1
         /\ NewCalls(r)[1].failed
         /\ NewCalls(r)[1].returned = 0
         /\ table' = table
         /\ stats'[r].total_processed = stats[r].total_processed
         /\ stats'[r].total_errors >= stats[r].total_errors + Len(Batch(r))]_vars

\* chunks of one, update_existing off: RecA1 was inserted, RecA2 with the same
\* key failed and RecA1's row is as it was
C21_Witness ==
  /\ ~update_existing
  /\ batch_size = 1
  /\ records["r1"] = <<RecA1, RecA2>>
  /\ pc["r1"] = "done"
  /\ Len(calls["r1"]) = 2
  /\ ~calls["r1"][1].failed
  /\ calls["r1"][2].failed
  /\ Len(table) = 1
  /\ table[1]["short_description"] = Str(Text1)

(***************************************************************************)
(* C22                                                                     *)
(***************************************************************************)
\* the columns of the live table the code does not declare
Undeclared == DOMAIN described.columns \ DOMAIN table_columns

\* the validation of run r answered from the DESCRIBE listing
Validated(r) == validation[r] # << >> /\ described.state = "ok"

\* C22 as the text has it: a live table with every declared column under a
\* compatible type is reported valid whatever undeclared columns it has, and
\* the undeclared columns are listed as extra.
C22_ExtraColumnsTolerated ==
  \A r \in active :
    Validated(r) =>
      /\ validation[r][1].extra_columns = Undeclared
      /\ validation[r][1].valid <=>
           /\ validation[r][1].missing_columns = {}
           /\ validation[r][1].schema_differences = {}

\* C22 as the code has it: the undeclared columns are listed as extra and
\* make the result invalid like a missing column or a type mismatch does;
\* the result is valid exactly when nothing is missing, nothing is extra and
\* no declared column has an incompatible type.
C22_ExtraColumnsInvalid ==
  \A r \in active :
    Validated(r) =>
      /\ validation[r][1].extra_columns = Undeclared
      /\ validation[r][1].missing_columns = DOMAIN table_columns \ DOMAIN described.columns
      /\ validation[r][1].valid <=>
           /\ DOMAIN described.columns = DOMAIN table_columns
           /\ validation[r][1].schema_differences = {}

\* every declared column is there under its own type, two undeclared columns
\* are listed as extra and the result is invalid
C22_Witness ==
  /\ Validated("r1")
  /\ validation["r1"][1].extra_columns = {"legacy_note", "legacy_flag"}
  /\ validation["r1"][1].missing_columns = {}
  /\ validation["r1"][1].schema_differences = {}
  /\ ~validation["r1"][1].valid

(***************************************************************************)
(* C23                                                                     *)
(***************************************************************************)
\* the declared columns the live table has
Shared == DOMAIN table_columns \cap DOMAIN described.columns

\* the validation of run r found the declared and the live type of c compatible
FoundCompatible(r, c) == c \notin validation[r][1].schema_differences

\* the families of the text: every integer width, every text length,
\* TIMESTAMP with DATETIME (and the character types); the name is taken
\* without its case and without its length
AllWidthsFamily(t) ==
  LET n == Upper(t.base)
  IN  CASE n \in {"TINYINT", "SMALLINT", "MEDIUMINT", "INT", "BIGINT"} -> "integer"
        [] n \in {"TINYTEXT", "TEXT", "MEDIUMTEXT", "LONGTEXT"} -> "text"
        [] n \in {"TIMESTAMP", "DATETIME"} -> "time"
        [] n \in {"VARCHAR", "CHAR"} -> "character"
        [] OTHER -> n

\* the families the code accepts for its declared types
ListedFamily(t) ==
  LET n == Upper(t.base)
  IN  CASE n \in {"INT", "BIGINT"} -> "integer"
        [] n \in {"TEXT", "MEDIUMTEXT", "LONGTEXT"} -> "text"
        [] n \in {"TIMESTAMP", "DATETIME"} -> "time"
        [] n \in {"VARCHAR", "CHAR"} -> "character"
        [] OTHER -> n

\* C23 as the text has it: a declared type and a live type are compatible
\* exactly when they are of one family, all integer widths being one family
\* and all text lengths being one family.
C23_CompatibleByFamily ==
  \A r \in active :
    Validated(r) =>
      \A c \in Shared :
        FoundCompatible(r, c) <=>
          AllWidthsFamily(table_columns[c]) = AllWidthsFamily(described.columns[c])

\* C23 as the code has it: case and length are ignored, and a declared type
\* is compatible with a live type exactly when both are in one of the listed
\* families BIGINT/INT, VARCHAR/CHAR, TEXT/MEDIUMTEXT/LONGTEXT,
\* TIMESTAMP/DATETIME, or have the same name; SMALLINT and TINYTEXT are in
\* no family but their own.
C23_CompatibleByListedFamily ==
  \A r \in active :
    Validated(r) =>
      \A c \in Shared :
        FoundCompatible(r, c) <=>
          ListedFamily(table_columns[c]) = ListedFamily(described.columns[c])

\* a declared LONGTEXT column that is mediumtext in the live table, and a
\* declared VARCHAR(100) column that is varchar(255), are found compatible
C23_Witness ==
  /\ Validated("r1")
  /\ \/ /\ described.columns["long_description"] = Type("mediumtext", 0)
        /\ FoundCompatible("r1", "long_description")
     \/ /\ described.columns["project_id"] = Type("varchar", 255)
        /\ FoundCompatible("r1", "project_id")

(***************************************************************************)
(* C24                                                                     *)
(***************************************************************************)
\* the writer of run r has been constructed: its Connection Manager exists
ManagerBuilt(r) == pc[r] # "constructing" /\ outcome[r].fail_step # "config"

\* the 'connection_params' the caller of MySQLConnectionManager supplied
CallerParams(r) == db_config[r].connection_params

\* C24: the Connection Manager's parameters are the defaults overridden by
\* the caller's parameters except 'sslmode': the result never has 'sslmode',
\* every other caller key carries the caller's value, every default key the
\* caller did not supply keeps its default, and there is no other key.
C24_ConnectionParameters ==
  \A r \in active :
    ManagerBuilt(r) =>
      /\ "sslmode" \notin DOMAIN connection_params[r]
      /\ \A k \in DOMAIN CallerParams(r) \ {"sslmode"} :
           k \in DOMAIN connection_params[r] /\ connection_params[r][k] = CallerParams(r)[k]
      /\ \A k \in DOMAIN default_params \ DOMAIN CallerParams(r) :
           k \in DOMAIN connection_params[r] /\ connection_params[r][k] = default_params[k]
      /\ DOMAIN connection_params[r] =
           DOMAIN default_params \cup (DOMAIN CallerParams(r) \ {"sslmode"})

\* a caller that supplies a charset and an sslmode: the charset is the
\* caller's, the timeout is the default, 'sslmode' is gone
C24_Witness ==
  /\ ManagerBuilt("r1")
  /\ DOMAIN CallerParams("r1") = {"charset", "sslmode"}
  /\ connection_params["r1"]["charset"] = "latin1"
  /\ connection_params["r1"]["connect_timeout"] = "30"
  /\ "sslmode" \notin DOMAIN connection_params["r1"]

(***************************************************************************)
(* C25                                                                     *)
(***************************************************************************)
\* the mapped columns declared TEXT or LONGTEXT
FreeTextColumns == {c \in MappedColumns : table_columns[c].base \in {"TEXT", "LONGTEXT"}}

\* the record's field is missing, null, or empty once its blanks are removed
BlankField(element, f) ==
  \/ f \notin DOMAIN element.val
  \/ element.val[f] = None
  \/ Strip(element.val[f][2]) = << >>

\* C25: empty-to-null. For every record a run loaded that passes preparation
\* and every mapped TEXT or LONGTEXT column, the prepared value is null when
\* the record's field is missing, null or empty after trimming, and the
\* trimmed string otherwise; no row of the table holds the empty string in
\* such a column.
C25_EmptyToNull ==
  /\ \A r \in active : \A k \in DOMAIN records[r] :
       LET rec == records[r][k]
           row == PrepareRecordForDb(rec)
       IN  Usable(rec) =>
             \A c \in FreeTextColumns :
               row[c] = IF BlankField(rec, OriginalField(c)) THEN None
                        ELSE Str(Strip(rec.val[OriginalField(c)][2]))
  /\ \A i \in DOMAIN table : \A c \in FreeTextColumns : table[i][c] # EmptyStr

\* a record whose 'Short Description' is blank and whose 'Long Description'
\* is missing was inserted: both columns of its row are null
C25_Witness ==
  /\ records["r1"] = <<RecBlankText>>
  /\ pc["r1"] = "done"
  /\ Len(table) = 1
  /\ table[1]["short_description"] = None
  /\ table[1]["long_description"] = None
  /\ table[1]["project_id"] = Str(<<"b">>)

(***************************************************************************)
(* C26                                                                     *)
(***************************************************************************)
\* the (projectId, issueId) pair of a base issue or of an annotation entry,
\* each id as its text (the number 1 and the string '1' are one id)
IdPair(d) ==
  <<Format(DictGet(d, "projectId", EmptyStr)), Format(DictGet(d, "issueId", EmptyStr))>>

\* an entry _create_lookups files: both ids are there and not empty
Filed(e) ==
  Truthy(DictGet(e, "projectId", EmptyStr)) /\ Truthy(DictGet(e, "issueId", EmptyStr))

\* the entries of a dataset that are JSON objects
EntriesOf(name) == {data[name][j].val : j \in {j \in DOMAIN data[name] : data[name][j].kind = "dict"}}

C27_OutcomeAccounting ==
  \A r \in active :
    WriteOver(r) =>
      stats[r].total_processed + stats[r].total_errors = Len(records[r])

(***************************************************************************)
(* C28                                                                     *)
(***************************************************************************)
\* the number of records of a list that fail preparation
Rejected(recs) == Len(recs) - CountIn(recs, Usable)

\* C28: chunk partition. The c-th loop iteration of the write step starts at
\* record (c - 1) * B + 1 and takes the records up to c * B (up to N in the
\* last chunk): at least one and at most B records, exactly B in every chunk
\* but the last, each chunk starting where the one before ended. The
\* iteration prepares these records and no other (its insert call carries
\* their prepared keys, its errors are theirs) and raises batch_count to c;
\* when the write step is over batch_count is ceil(N/B).
C28_ChunkPartition ==
  /\ [](\A r \in active : WriteOver(r) =>
          stats[r].batch_count = CeilDiv(Len(records[r]), batch_size))
  /\ [][\A r \in active :
          offset'[r] # offset[r] =>
            LET c == stats[r].batch_count + 1
                chunk == Slice(r, c)
                errors == stats'[r].total_errors - stats[r].total_errors
            IN  /\ offset[r] = (c - 1) * batch_size
                /\ offset'[r] = c * batch_size
                /\ stats'[r].batch_count = c
                /\ c <= CeilDiv(Len(records[r]), batch_size)
                /\ 1 <= Len(chunk) /\ Len(chunk) <= batch_size
                /\ c < CeilDiv(Len(records[r]), batch_size) => Len(chunk) = batch_size
                /\ Len(NewCalls(r)) <= 1
                /\ \A j \in DOMAIN NewCalls(r) :
                     /\ NewCalls(r)[j].chunk = c
                     /\ NewCalls(r)[j].keys = PreparedKeys(chunk)
                /\ (NewCalls(r) = << >>) = (Rejected(chunk) = Len(chunk))
                /\ errors \in {Rejected(chunk), Rejected(chunk) + Len(chunk)}]_vars

\* three records in chunks of two: a chunk of two, then a chunk of one, and
\* batch_count is 2
C28_Witness ==
  /\ batch_size = 2
  /\ records["r1"] = <<RecA1, RecB, RecA2>>
  /\ pc["r1"] = "done"
  /\ stats["r1"].batch_count = 2
  /\ Len(calls["r1"]) = 2
  /\ Len(calls["r1"][1].keys) = 2
  /\ Len(calls["r1"][2].keys) = 1
  /\ ~calls["r1"][1].failed

(***************************************************************************)
(* C29                                                                     *)
(***************************************************************************)
\* the run of r has ended, with a result or with an error
RunOver(r) == pc[r] \in {"done", "failed"}

\* C29: connection release. No Connection Manager connection of a run is
\* open when the run has ended or when a chunk starts, after a failed
\* connection test or insert as after a successful one. Violated:
\* connection.close() is the last statement of the try blocks of
\* test_connection and _insert_batch, there is no finally clause, and a query
\* or insert that raises leaves the connection it was given open.
C29_ConnectionRelease ==
  \A r \in active :
    /\ RunOver(r) => connections[r] = 0
    /\ InLoop(r) => connections[r] = 0
    /\ connections[r] <= 1

(***************************************************************************)
(* C30                                                                     *)
(***************************************************************************)
\* C30: both connection paths accept the same descriptors. Whenever the
\* Connection Manager of a constructed writer can make its connect call, the
\* Schema Manager can make its own, and a run whose connection test has
\* passed can pass the ensure-database step. Violated: the Schema Manager
\* passes charset='utf8mb4' next to **connection_params, so a descriptor whose
\* connection_params carry 'charset' (the sample configuration) gives the
\* keyword twice; it passes 'sslmode' on unfiltered; and it reads
\* connection_config['port'] where the Connection Manager defaults to 3306.
C30_SameDescriptorsAccepted ==
  \A r \in active :
    /\ (ManagerBuilt(r) /\ ManagerConnects(db_config[r], connection_params[r]))
         => SchemaConnects(db_config[r])
    /\ pc[r] = "connection_verified" => ENABLED (DatabaseFound(r) \/ DatabaseCreated(r))
====
